---- MODULE Spec2Model ----
(***************************************************************************)
(* Streaming chat client of youtu-rag (frontend chat page): the SSE read   *)
(* loop, the event dispatcher and its handlers, the execution cards, the   *)
(* parallel windows and the send / stop flow.                              *)
(*                                                                         *)
(* Strings are sequences of one-character strings.  An optional JSON field *)
(* is <<>> when absent and <<v>> when present.  A card reference is the    *)
(* index of the card in `cards`, 0 for null.  Handlers are operators from  *)
(* a state record to a state record; the actions commit the result.        *)
(***************************************************************************)
EXTENDS Integers, Sequences, FiniteSets, TLC

\* ---------------------------------------------------------------- bounds
MaxCards == 4
MaxEvents == 4
MaxSessions == 2
ShortNow == 200
MaxSegments == 3
LongNow == 700

\* ------------------------------------------------------- program constants
ToolOutputDelayMs == 500
ToolLogDelayMs == 100
RunItemDelayMs == 100
CardTimerIntervalMs == 100
NoCard == 0

\* ---------------------------------------------------------------- strings
Str(s) == <<s>>
EmptyStr == <<>>
Absent == <<>>
Some(v) == <<v>>
Has(f) == f # <<>>
\* JavaScript truthiness of an optional string field: undefined and '' are falsy
Truthy(f) == f # <<>> /\ f[1] # <<>>
\* `field || ''`
OrEmpty(f) == IF Truthy(f) THEN f[1] ELSE EmptyStr

Agents == {"A", "B"}

VARIABLES
  cards,                  \* the .execution-card elements ever created
  lastActiveCard, currentReasoningCard, currentToolCallCard,
  currentToolOutputCard, currentOutputCard, currentExcelTaskCard,
  currentExcelTaskNodeId,
  reasoningContent, toolCallArgs, toolOutputContent, outputContent,
  currentToolName, excelTaskContent,
  totalTimeStartTime, totalTimeTimer, totalElapsedTime,
  intervals,              \* live setInterval handles of the total timer
  nextInterval,           \* next handle setInterval returns
  windows,                \* the .parallel-agent-window elements ever created
  parallelWindows, isParallelMode, currentParallelContainer, parallelAgentCards,
  workflowNodes,          \* workflow tree nodes: sequence of "open"/"done"
  containers,             \* the parallel wrappers ever created
  timeouts,               \* pending setTimeout callbacks
  messages,               \* non-card children of #chat-messages, in order
  toasts,
  analysisEls,            \* children of #analysis-container
  isStreaming, stopMode, currentAbortController,
  pc,                     \* where streamChatResponse is suspended
  aborted,                \* abort() was called, the rejection is not yet handled
  buffer,                 \* streamChatResponse's local line buffer
  stream,                 \* the response text the transport delivers
  pos,                    \* how much of it has been delivered
  now,                    \* Date.now()
  sessions,               \* streams started so far
  hist,                   \* events handed to dispatchEvent in this stream
  nEvents,                \* events handed to dispatchEvent so far
  touched                 \* card created or re-rendered by the last dispatch

vars == <<cards, lastActiveCard, currentReasoningCard, currentToolCallCard,
  currentToolOutputCard, currentOutputCard, currentExcelTaskCard,
  currentExcelTaskNodeId, reasoningContent, toolCallArgs, toolOutputContent,
  outputContent, currentToolName, excelTaskContent, totalTimeStartTime,
  totalTimeTimer, totalElapsedTime, intervals, nextInterval, windows,
  containers, parallelWindows, isParallelMode, currentParallelContainer,
  parallelAgentCards, workflowNodes, timeouts, messages, toasts, analysisEls,
  isStreaming, stopMode, currentAbortController, pc, aborted, buffer, stream,
  pos, now, sessions, hist, nEvents, touched>>

\* The program state as one record; handlers map such records to records.
St == [cards |-> cards, lastActiveCard |-> lastActiveCard,
  currentReasoningCard |-> currentReasoningCard,
  currentToolCallCard |-> currentToolCallCard,
  currentToolOutputCard |-> currentToolOutputCard,
  currentOutputCard |-> currentOutputCard,
  currentExcelTaskCard |-> currentExcelTaskCard,
  currentExcelTaskNodeId |-> currentExcelTaskNodeId,
  reasoningContent |-> reasoningContent, toolCallArgs |-> toolCallArgs,
  toolOutputContent |-> toolOutputContent, outputContent |-> outputContent,
  currentToolName |-> currentToolName, excelTaskContent |-> excelTaskContent,
  totalTimeStartTime |-> totalTimeStartTime, totalTimeTimer |-> totalTimeTimer,
  totalElapsedTime |-> totalElapsedTime, intervals |-> intervals,
  nextInterval |-> nextInterval, windows |-> windows,
  containers |-> containers,
  parallelWindows |-> parallelWindows, isParallelMode |-> isParallelMode,
  currentParallelContainer |-> currentParallelContainer,
  parallelAgentCards |-> parallelAgentCards, workflowNodes |-> workflowNodes,
  timeouts |-> timeouts, messages |-> messages, toasts |-> toasts,
  analysisEls |-> analysisEls, isStreaming |-> isStreaming,
  stopMode |-> stopMode, currentAbortController |-> currentAbortController,
  now |-> now, hist |-> hist, nEvents |-> nEvents, touched |-> touched,
  thrown |-> <<>>]

Commit(s) ==
  /\ cards' = s.cards
  /\ lastActiveCard' = s.lastActiveCard
  /\ currentReasoningCard' = s.currentReasoningCard
  /\ currentToolCallCard' = s.currentToolCallCard
  /\ currentToolOutputCard' = s.currentToolOutputCard
  /\ currentOutputCard' = s.currentOutputCard
  /\ currentExcelTaskCard' = s.currentExcelTaskCard
  /\ currentExcelTaskNodeId' = s.currentExcelTaskNodeId
  /\ reasoningContent' = s.reasoningContent
  /\ toolCallArgs' = s.toolCallArgs
  /\ toolOutputContent' = s.toolOutputContent
  /\ outputContent' = s.outputContent
  /\ currentToolName' = s.currentToolName
  /\ excelTaskContent' = s.excelTaskContent
  /\ totalTimeStartTime' = s.totalTimeStartTime
  /\ totalTimeTimer' = s.totalTimeTimer
  /\ totalElapsedTime' = s.totalElapsedTime
  /\ intervals' = s.intervals
  /\ nextInterval' = s.nextInterval
  /\ windows' = s.windows
  /\ containers' = s.containers
  /\ parallelWindows' = s.parallelWindows
  /\ isParallelMode' = s.isParallelMode
  /\ currentParallelContainer' = s.currentParallelContainer
  /\ parallelAgentCards' = s.parallelAgentCards
  /\ workflowNodes' = s.workflowNodes
  /\ timeouts' = s.timeouts
  /\ messages' = s.messages
  /\ toasts' = s.toasts
  /\ analysisEls' = s.analysisEls
  /\ isStreaming' = s.isStreaming
  /\ stopMode' = s.stopMode
  /\ currentAbortController' = s.currentAbortController
  /\ hist' = s.hist
  /\ nEvents' = s.nEvents
  /\ touched' = s.touched

\* ------------------------------------------------------------------ cards
NewCard(title, t) ==
  [title |-> title, toolName |-> "", startTime |-> t, timeText |-> 0,
   completed |-> FALSE, statusSuccess |-> FALSE, expanded |-> TRUE,
   timerLive |-> TRUE, content |-> EmptyStr, ctype |-> "loading",
   fallback |-> FALSE, loc |-> 0]

\* createCollapsibleCard: the new card is appended to #chat-messages, running,
\* expanded, its interval timer started.  The handle it returns is NewId(s).
NewId(s) == Len(s.cards) + 1
CreateCollapsibleCard(s, title) ==
  [s EXCEPT !.cards = Append(s.cards, NewCard(title, s.now)),
            !.touched = Len(s.cards) + 1]

\* `throw new Error(event.error || 'Stream error')`
Throw(s, msg) == [s EXCEPT !.thrown = Some(msg)]

\* text.trim(), as JSON.parse skips leading and trailing white space
RECURSIVE StripSpaces(_)
StripSpaces(text) ==
  IF text = <<>> THEN text
  ELSE IF text[1] = " " THEN StripSpaces(Tail(text))
  ELSE IF text[Len(text)] = " " THEN StripSpaces(SubSeq(text, 1, Len(text) - 1))
  ELSE text

\* JSON.parse(content) succeeds; of the texts used here, the JSON documents
\* are the numbers written with the digits 1 and 2
JsonParses(content) ==
  /\ StripSpaces(content) # <<>>
  /\ \A i \in 1..Len(StripSpaces(content)) : StripSpaces(content)[i] \in {"1", "2"}
\* JSON.stringify(JSON.parse(content), null, 2) of such a number
JsonStringify(content) == StripSpaces(content)

\* marked.parse(text) throws; which texts make the renderer fail is up to the
\* library, here the texts that hold the character "!"
MarkedThrows(text) == \E i \in 1..Len(text) : text[i] = "!"

\* contentDiv.innerHTML = ...: the body shows text, rendered or as the
\* escaped <pre> fallback
SetBody(s, c, text, type, fallback) ==
  [s EXCEPT !.cards[c].content = text, !.cards[c].ctype = type,
            !.cards[c].fallback = fallback, !.touched = c]

RenderJson(s, c, content) ==
  IF JsonParses(content) /\ ~MarkedThrows(JsonStringify(content))
  THEN SetBody(s, c, JsonStringify(content), "json", FALSE)
  ELSE SetBody(s, c, content, "json", TRUE)

\* the texts used here hold neither a {"code": / {"sql": field nor a ``` fence:
\* codeContent = content, language = 'text'
RenderCode(s, c, content) ==
  SetBody(s, c, content, "code", MarkedThrows(content))

\* marked.parse(content) outside any try: a failure leaves updateCardContent
RenderMarkdown(s, c, content) ==
  IF MarkedThrows(content) THEN Throw(s, Str("marked"))
  ELSE SetBody(s, c, content, "markdown", FALSE)

\* updateCardContent: re-render the body from content under the given type
UpdateCardContent(s, c, content, type) ==
  IF c = NoCard THEN s
  ELSE CASE type = "text" -> SetBody(s, c, content, "text", FALSE)
         [] type = "json" -> RenderJson(s, c, content)
         [] type = "code" -> RenderCode(s, c, content)
         [] type = "markdown" -> RenderMarkdown(s, c, content)
         [] OTHER -> s

\* completeCard(card, collapse = false)
CompleteCard(s, c, collapse) ==
  IF c = NoCard THEN s
  ELSE [s EXCEPT !.cards[c].completed = TRUE,
                 !.cards[c].timeText = s.now - s.cards[c].startTime,
                 !.cards[c].timerLive = FALSE,
                 !.cards[c].statusSuccess = TRUE,
                 !.cards[c].expanded = IF collapse THEN FALSE ELSE @]

\* toggleExecutionCard
ToggleExecutionCard(s, c) == [s EXCEPT !.cards[c].expanded = ~@]

\* `if (lastActiveCard) { completeCard(lastActiveCard); lastActiveCard = null; }`
CompleteLastActive(s) ==
  IF s.lastActiveCard # NoCard
  THEN [CompleteCard(s, s.lastActiveCard, FALSE) EXCEPT !.lastActiveCard = NoCard]
  ELSE s

\* `if (lastActiveCard && lastActiveCard !== current) completeCard(lastActiveCard)`
CompletePrevious(s, current) ==
  IF s.lastActiveCard # NoCard /\ s.lastActiveCard # current
  THEN CompleteCard(s, s.lastActiveCard, FALSE) ELSE s

\* ----------------------------------------------------------- total timer
StartTotalTimeTimer(s) ==
  [s EXCEPT !.totalTimeStartTime = Some(s.now),
            !.totalTimeTimer = s.nextInterval,
            !.intervals = s.intervals \cup {s.nextInterval},
            !.nextInterval = s.nextInterval + 1]

\* `if (totalTimeTimer) { clearInterval(totalTimeTimer); totalTimeTimer = null; }`
ClearTotalTimeTimer(s) ==
  IF s.totalTimeTimer # 0
  THEN [s EXCEPT !.intervals = s.intervals \ {s.totalTimeTimer}, !.totalTimeTimer = 0]
  ELSE s

RecordTotalElapsed(s) ==
  IF Has(s.totalTimeStartTime)
  THEN [s EXCEPT !.totalElapsedTime = Some(s.now - s.totalTimeStartTime[1])]
  ELSE s

StopTotalTimeTimer(s) ==
  [RecordTotalElapsed(ClearTotalTimeTimer(s)) EXCEPT !.totalTimeStartTime = Absent]

HideTotalTimeDisplay(s) ==
  [ClearTotalTimeTimer(s) EXCEPT !.totalTimeStartTime = Absent]

\* ------------------------------------------------------------ chat messages
AddMessage(s, role, content) ==
  [s EXCEPT !.messages = Append(s.messages, [role |-> role, content |-> content])]

AddFinalAnswerBubble(s, content) ==
  [s EXCEPT !.messages = Append(s.messages, [role |-> "final", content |-> content]),
            !.totalElapsedTime = Absent]

ShowToast(s, key) == [s EXCEPT !.toasts = Append(s.toasts, key)]

\* ---------------------------------------------------- stream state helpers
ResetStreamState(s) ==
  [s EXCEPT !.currentReasoningCard = NoCard, !.currentToolCallCard = NoCard,
            !.currentToolOutputCard = NoCard, !.currentOutputCard = NoCard,
            !.currentExcelTaskCard = NoCard, !.currentExcelTaskNodeId = 0,
            !.lastActiveCard = NoCard,
            !.reasoningContent = EmptyStr, !.toolCallArgs = EmptyStr,
            !.toolOutputContent = EmptyStr, !.outputContent = EmptyStr,
            !.currentToolName = Absent, !.excelTaskContent = EmptyStr]

ShouldRouteToParallel(s, e) ==
  s.isParallelMode /\ e.agent_name # "" /\ e.agent_name \in DOMAIN s.parallelWindows

\* the six `if (current...Card) { completeCard(...); ... = null; }` of
\* completeAllActiveCards, in source order
CloseReasoningCard(s) ==
  IF s.currentReasoningCard # NoCard
  THEN [CompleteCard(s, s.currentReasoningCard, FALSE) EXCEPT !.currentReasoningCard = NoCard]
  ELSE s
CloseToolCallCard(s) ==
  IF s.currentToolCallCard # NoCard
  THEN [CompleteCard(s, s.currentToolCallCard, FALSE) EXCEPT !.currentToolCallCard = NoCard]
  ELSE s
CloseToolOutputCard(s) ==
  IF s.currentToolOutputCard # NoCard
  THEN [CompleteCard(s, s.currentToolOutputCard, FALSE) EXCEPT !.currentToolOutputCard = NoCard]
  ELSE s
CloseOutputCard(s) ==
  IF s.currentOutputCard # NoCard
  THEN [CompleteCard(s, s.currentOutputCard, FALSE) EXCEPT !.currentOutputCard = NoCard]
  ELSE s
CloseExcelTaskCard(s) ==
  IF s.currentExcelTaskCard # NoCard
  THEN [CompleteCard(s, s.currentExcelTaskCard, FALSE)
          EXCEPT !.currentExcelTaskCard = NoCard, !.currentExcelTaskNodeId = 0]
  ELSE s
ClearContentBuffers(s) ==
  [s EXCEPT !.reasoningContent = EmptyStr, !.toolCallArgs = EmptyStr,
            !.toolOutputContent = EmptyStr, !.outputContent = EmptyStr,
            !.excelTaskContent = EmptyStr]

CompleteAllActiveCards(s) ==
  ClearContentBuffers(CompleteLastActive(CloseExcelTaskCard(CloseOutputCard(
    CloseToolOutputCard(CloseToolCallCard(CloseReasoningCard(s)))))))

\* ------------------------------------------------------ normal-mode handlers
\* card.dataset.toolName = name stores String(name)
DatasetString(opt) == IF opt = Absent THEN "undefined" ELSE opt[1]
\* dataset.toolName !== name
StrictNotEqual(stored, opt) == opt = Absent \/ opt[1] # stored

SetTimeout(s, kind, c, delay) ==
  [s EXCEPT !.timeouts = Append(s.timeouts,
                [due |-> s.now + delay, kind |-> kind, card |-> c])]

\* `event.mode || 'json'`
ModeOr(e, dflt) == IF e.mode = "" THEN dflt ELSE e.mode

ReasoningNormalDone(s) ==
  IF s.currentReasoningCard # NoCard
  THEN [CompleteCard(s, s.currentReasoningCard, FALSE)
          EXCEPT !.lastActiveCard = NoCard, !.currentReasoningCard = NoCard]
  ELSE s
ReasoningNormalCreate(s) ==
  [CreateCollapsibleCard(s, "Reasoning")
     EXCEPT !.currentReasoningCard = NewId(s), !.lastActiveCard = NewId(s),
            !.reasoningContent = EmptyStr]
ReasoningNormalOpen(s) ==
  IF s.currentReasoningCard = NoCard
  THEN ReasoningNormalCreate(CompletePrevious(s, s.currentReasoningCard))
  ELSE s
ReasoningNormalAppend(s, e) ==
  UpdateCardContent([s EXCEPT !.reasoningContent = @ \o e.content[1]],
                    s.currentReasoningCard, s.reasoningContent \o e.content[1], "text")
HandleReasoningNormal(s, e) ==
  IF e.done THEN ReasoningNormalDone(s)
  ELSE IF Truthy(e.content) THEN ReasoningNormalAppend(ReasoningNormalOpen(s), e)
  ELSE s

\* the snapshot / delta merge of a tool_call frame into an argument buffer
MergeToolArgs(buf, e) ==
  IF Truthy(e.arguments) THEN e.arguments[1]
  ELSE IF Truthy(e.arguments_delta) THEN buf \o e.arguments_delta[1]
  ELSE buf

ToolCallNormalDone(s) ==
  IF s.currentToolCallCard # NoCard
  THEN [CompleteCard(s, s.currentToolCallCard, FALSE)
          EXCEPT !.lastActiveCard = NoCard, !.currentToolCallCard = NoCard]
  ELSE s
ToolCallNormalSwitch_Keep(s, e) == [s EXCEPT !.currentToolName = e.tool_name]
\* `currentToolName = event.tool_name`, then "if new tool, complete previous"
ToolCallNormalSwitch(s, e) ==
  IF s.currentToolCallCard # NoCard
     /\ StrictNotEqual(s.cards[s.currentToolCallCard].toolName, e.tool_name)
  THEN [CompleteCard(s, s.currentToolCallCard, FALSE)
          EXCEPT !.currentToolCallCard = NoCard, !.currentToolName = e.tool_name]
  ELSE [s EXCEPT !.currentToolName = e.tool_name]
ToolCallNormalCreate(s) ==
  [CreateCollapsibleCard(s, "Tool use")
     EXCEPT !.cards[NewId(s)].toolName = DatasetString(s.currentToolName),
            !.currentToolCallCard = NewId(s), !.lastActiveCard = NewId(s),
            !.toolCallArgs = EmptyStr]
ToolCallNormalOpen(s) ==
  IF s.currentToolCallCard = NoCard
  THEN ToolCallNormalCreate(CompletePrevious(s, s.currentToolCallCard))
  ELSE s
ToolCallNormalArgs(s, e) ==
  IF Truthy(e.arguments) \/ Truthy(e.arguments_delta)
  THEN UpdateCardContent([s EXCEPT !.toolCallArgs = MergeToolArgs(s.toolCallArgs, e)],
                         s.currentToolCallCard, MergeToolArgs(s.toolCallArgs, e),
                         ModeOr(e, "json"))
  ELSE s
HandleToolCallNormal(s, e) ==
  IF e.done THEN ToolCallNormalDone(s)
  ELSE ToolCallNormalArgs(ToolCallNormalOpen(ToolCallNormalSwitch(s, e)), e)

ToolOutputNormalCreate(s, e) ==
  UpdateCardContent(
    [CreateCollapsibleCard(s, "Tool output")
       EXCEPT !.currentToolOutputCard = NewId(s), !.lastActiveCard = NewId(s),
              !.toolOutputContent = OrEmpty(e.output)],
    NewId(s), OrEmpty(e.output), "text")
ToolOutputNormalPrevious(s) == CompletePrevious(s, s.currentToolOutputCard)
HandleToolOutputNormal(s, e) ==
  SetTimeout(ToolOutputNormalCreate(ToolOutputNormalPrevious(CloseToolOutputCard(s)), e),
             "toolOutputNormal", NoCard, ToolOutputDelayMs)

DeltaNormalDone(s) ==
  IF s.currentOutputCard # NoCard
  THEN [CompleteCard(s, s.currentOutputCard, FALSE)
          EXCEPT !.lastActiveCard = NoCard, !.currentOutputCard = NoCard]
  ELSE s
DeltaNormalCreate(s) ==
  [CreateCollapsibleCard(s, "Analysis")
     EXCEPT !.currentOutputCard = NewId(s), !.lastActiveCard = NewId(s),
            !.outputContent = EmptyStr]
DeltaNormalOpen(s) ==
  IF s.currentOutputCard = NoCard
  THEN DeltaNormalCreate(CompletePrevious(s, s.currentOutputCard))
  ELSE s
DeltaNormalAppend(s, e) ==
  UpdateCardContent([s EXCEPT !.outputContent = @ \o e.content[1]],
                    s.currentOutputCard, s.outputContent \o e.content[1], "markdown")
HandleDeltaNormal(s, e) ==
  IF e.done THEN DeltaNormalDone(s)
  ELSE IF Truthy(e.content) THEN DeltaNormalAppend(DeltaNormalOpen(s), e)
  ELSE s

\* createWorkflowNode + workflowTree.currentStack.push(node.id)
CreateWorkflowNode(s) == [s EXCEPT !.workflowNodes = Append(s.workflowNodes, "open")]
CompleteWorkflowNode(s, n) == [s EXCEPT !.workflowNodes[n] = "done"]

\* the card title an excel_agent_event gives: `event.title || 'Excel Agent'`
ExcelTitle(e) == IF Truthy(e.title) THEN e.title[1] ELSE "Excel Agent"

ExcelNormalRetitle(s, e) ==
  IF Truthy(e.title) THEN [s EXCEPT !.cards[s.currentExcelTaskCard].title = e.title[1]]
  ELSE s
ExcelNormalDoneCard(s, e) ==
  IF s.currentExcelTaskCard # NoCard
  THEN [CompleteCard(ExcelNormalRetitle(s, e), s.currentExcelTaskCard, FALSE)
          EXCEPT !.lastActiveCard = NoCard, !.currentExcelTaskCard = NoCard,
                 !.excelTaskContent = EmptyStr]
  ELSE s
ExcelNormalDoneNode(s) ==
  IF s.currentExcelTaskNodeId # 0
  THEN [CompleteWorkflowNode(s, s.currentExcelTaskNodeId)
          EXCEPT !.currentExcelTaskNodeId = 0]
  ELSE s
ExcelNormalCreate(s, e) ==
  [CreateWorkflowNode(CreateCollapsibleCard(s, ExcelTitle(e)))
     EXCEPT !.currentExcelTaskCard = NewId(s), !.lastActiveCard = NewId(s),
            !.excelTaskContent = EmptyStr,
            !.currentExcelTaskNodeId = Len(s.workflowNodes) + 1]
ExcelNormalOpen(s, e) ==
  IF s.currentExcelTaskCard = NoCard
  THEN ExcelNormalCreate(CompletePrevious(s, s.currentExcelTaskCard), e)
  ELSE s
\* `if (event.clean) content = ''; content += event.content`
ExcelBuffer_NoClean(buf, e) == buf \o e.content[1]
ExcelBuffer(buf, e) == IF e.clean THEN e.content[1] ELSE buf \o e.content[1]
ExcelNormalAppend(s, e) ==
  UpdateCardContent([s EXCEPT !.excelTaskContent = ExcelBuffer(@, e)],
                    s.currentExcelTaskCard, ExcelBuffer(s.excelTaskContent, e),
                    ModeOr(e, "text"))
HandleExcelAgentNormal(s, e) ==
  IF e.done THEN ExcelNormalDoneNode(ExcelNormalDoneCard(s, e))
  ELSE IF Truthy(e.content) THEN ExcelNormalAppend(ExcelNormalOpen(s, e), e)
  ELSE s

\* ------------------------------------------------------- parallel windows
EmptyAgentCards ==
  [reasoning |-> NoCard, toolCall |-> NoCard, output |-> NoCard,
   excelTask |-> NoCard, lastActiveCard |-> NoCard,
   reasoningContent |-> EmptyStr, toolCallArgs |-> EmptyStr,
   outputContent |-> EmptyStr, excelTaskContent |-> EmptyStr,
   excelTaskNodeId |-> 0]

\* `if (!parallelAgentCards[a]) parallelAgentCards[a] = {}`
EnsureAgentCards(s, a) ==
  IF a \in DOMAIN s.parallelAgentCards THEN s
  ELSE [s EXCEPT !.parallelAgentCards = (a :> EmptyAgentCards) @@ s.parallelAgentCards]

\* a card is in the document when it sits in #chat-messages or in a window of
\* a wrapper that has not been removed
CardAttached(s, c) ==
  \/ s.cards[c].loc = 0
  \/ s.containers[s.windows[s.cards[c].loc].container].attached

\* createParallelWindow, appended to the grid, and parallelWindows[name] = it
AddWindow(s, name, first) ==
  [s EXCEPT !.windows = Append(s.windows,
                [agentName |-> name, status |-> "waiting",
                 container |-> s.currentParallelContainer, tabActive |-> first]),
            !.parallelWindows = (name :> (Len(s.windows) + 1)) @@ s.parallelWindows]

RECURSIVE AddWindows(_, _, _)
AddWindows(s, tasks, i) ==
  IF i > Len(tasks) THEN s
  ELSE AddWindows(AddWindow(s, tasks[i], i = 1), tasks, i + 1)

\* `if (currentParallelContainer) { currentParallelContainer.remove(); ... = null; }`
RemoveParallelContainer(s) ==
  IF s.currentParallelContainer # 0
  THEN [s EXCEPT !.containers[s.currentParallelContainer].attached = FALSE,
                 !.currentParallelContainer = 0]
  ELSE s

NewWrapper_NoNav(tasks) ==
  [hasNav |-> FALSE, grid |-> "grid-4",
   view |-> "grid", taskCount |-> Len(tasks), attached |-> TRUE]
NewWrapper(tasks) ==
  [hasNav |-> Len(tasks) > 2,
   grid |-> IF Len(tasks) <= 2 THEN "grid-2" ELSE "grid-4",
   view |-> "grid", taskCount |-> Len(tasks), attached |-> TRUE]

AppendWrapper(s, tasks) ==
  [s EXCEPT !.containers = Append(s.containers, NewWrapper(tasks)),
            !.currentParallelContainer = Len(s.containers) + 1,
            !.parallelWindows = <<>>,
            !.isParallelMode = TRUE]

CreateParallelContainer(s, tasks) ==
  AddWindows(AppendWrapper(CompleteLastActive(RemoveParallelContainer(s)), tasks),
             tasks, 1)

UpdateParallelWindowStatus(s, a, status) ==
  IF a \notin DOMAIN s.parallelWindows THEN s
  ELSE [s EXCEPT !.windows[s.parallelWindows[a]].status = status]

\* the card is left where createCollapsibleCard put it
AddContentToParallelWindow_NotMoved(s, a, c) == s
AddContentToParallelWindow(s, a, c) ==
  IF a \notin DOMAIN s.parallelWindows THEN s
  ELSE [s EXCEPT !.cards[c].loc = s.parallelWindows[a]]

\* complete the reasoning, toolCall and output cards tracked for one agent
CompleteAgentCards(s, a) ==
  CompleteCard(CompleteCard(CompleteCard(s, s.parallelAgentCards[a].reasoning, FALSE),
                            s.parallelAgentCards[a].toolCall, FALSE),
               s.parallelAgentCards[a].output, FALSE)

RECURSIVE CompleteAgentsIn(_, _)
CompleteAgentsIn(s, as) ==
  IF as = {} THEN s
  ELSE CompleteAgentsIn(CompleteAgentCards(s, CHOOSE x \in as : TRUE),
                        as \ {CHOOSE x \in as : TRUE})

ExitParallelMode(s) ==
  [CompleteAgentsIn(s, DOMAIN s.parallelAgentCards)
     EXCEPT !.isParallelMode = FALSE, !.parallelWindows = <<>>,
            !.currentParallelContainer = 0, !.parallelAgentCards = <<>>]

\* createParallelGroupHeader, when the event carries group_idx
GroupHeader(s, e) ==
  IF e.has_group_idx THEN AddMessage(s, "group-header", Len(e.tasks)) ELSE s
GroupContainer(s, e) ==
  IF Len(e.tasks) > 0 THEN CreateParallelContainer(s, e.tasks) ELSE s
HandleParallelGroupStart(s, e) ==
  GroupContainer(GroupHeader(CompleteLastActive(s), e), e)

HandleParallelTaskStart(s, e) ==
  IF e.agent_name # "" THEN UpdateParallelWindowStatus(s, e.agent_name, "running") ELSE s

TaskDoneCards(s, e) ==
  IF e.agent_name \in DOMAIN s.parallelAgentCards
  THEN CompleteAgentCards(s, e.agent_name) ELSE s
HandleParallelTaskDone(s, e) ==
  IF e.agent_name # ""
  THEN TaskDoneCards(UpdateParallelWindowStatus(s, e.agent_name, "completed"), e)
  ELSE s

HandleParallelTaskError(s, e) ==
  IF e.agent_name # "" THEN UpdateParallelWindowStatus(s, e.agent_name, "error") ELSE s

HandleParallelGroupDone(s) == s

\* one iteration of the loop of handleMergeStart
CompleteWindow_OnlyWaiting(s, a) ==
  IF s.windows[s.parallelWindows[a]].status = "waiting"
  THEN UpdateParallelWindowStatus(s, a, "completed") ELSE s
CompleteWindow(s, a) ==
  IF s.windows[s.parallelWindows[a]].status # "completed"
  THEN UpdateParallelWindowStatus(s, a, "completed") ELSE s

RECURSIVE CompleteWindowsIn(_, _)
CompleteWindowsIn(s, as) ==
  IF as = {} THEN s
  ELSE CompleteWindowsIn(CompleteWindow(s, CHOOSE x \in as : TRUE),
                         as \ {CHOOSE x \in as : TRUE})

HandleMergeStart(s) == CompleteWindowsIn(s, DOMAIN s.parallelWindows)

HandleMergeDone(s) == ExitParallelMode(s)

\* ---------------------------------------------------- parallel-mode handlers
\* parallelAgentCards[a]?.field, read as NoCard when the agent has no entry
AgentCard(s, a, field) ==
  IF a \in DOMAIN s.parallelAgentCards THEN s.parallelAgentCards[a][field] ELSE NoCard

ReasoningParallelDone(s, a) ==
  IF AgentCard(s, a, "reasoning") # NoCard
  THEN [CompleteCard(s, s.parallelAgentCards[a].reasoning, FALSE)
          EXCEPT !.parallelAgentCards[a].reasoning = NoCard]
  ELSE s
ReasoningParallelOpen(s, a) ==
  IF s.parallelAgentCards[a].reasoning = NoCard
  THEN AddContentToParallelWindow(
         [CreateCollapsibleCard(s, "Reasoning")
            EXCEPT !.parallelAgentCards[a].reasoning = NewId(s),
                   !.parallelAgentCards[a].reasoningContent = EmptyStr],
         a, NewId(s))
  ELSE s
ReasoningParallelAppend_Replace(s, a, e) ==
  UpdateCardContent(
    [s EXCEPT !.parallelAgentCards[a].reasoningContent = e.content[1]],
    s.parallelAgentCards[a].reasoning, e.content[1], "text")
ReasoningParallelAppend(s, a, e) ==
  UpdateCardContent(
    [s EXCEPT !.parallelAgentCards[a].reasoningContent = @ \o e.content[1]],
    s.parallelAgentCards[a].reasoning,
    s.parallelAgentCards[a].reasoningContent \o e.content[1], "text")
HandleReasoningParallel(s, e) ==
  IF e.done THEN ReasoningParallelDone(s, e.agent_name)
  ELSE IF Truthy(e.content)
  THEN ReasoningParallelAppend(
         ReasoningParallelOpen(EnsureAgentCards(s, e.agent_name), e.agent_name),
         e.agent_name, e)
  ELSE s

ToolCallParallelDone(s, a) ==
  IF AgentCard(s, a, "toolCall") # NoCard
  THEN [CompleteCard(s, s.parallelAgentCards[a].toolCall, FALSE)
          EXCEPT !.parallelAgentCards[a].toolCall = NoCard]
  ELSE s
ToolCallParallelSwitch(s, a, e) ==
  IF s.parallelAgentCards[a].toolCall # NoCard
     /\ StrictNotEqual(s.cards[s.parallelAgentCards[a].toolCall].toolName, e.tool_name)
  THEN [CompleteCard(s, s.parallelAgentCards[a].toolCall, FALSE)
          EXCEPT !.parallelAgentCards[a].toolCall = NoCard]
  ELSE s
ToolCallParallelOpen(s, a, e) ==
  IF s.parallelAgentCards[a].toolCall = NoCard
  THEN AddContentToParallelWindow(
         [CreateCollapsibleCard(s, "Tool use")
            EXCEPT !.cards[NewId(s)].toolName = DatasetString(e.tool_name),
                   !.parallelAgentCards[a].toolCall = NewId(s),
                   !.parallelAgentCards[a].toolCallArgs = EmptyStr],
         a, NewId(s))
  ELSE s
ToolCallParallelArgs(s, a, e) ==
  IF Truthy(e.arguments) \/ Truthy(e.arguments_delta)
  THEN UpdateCardContent(
         [s EXCEPT !.parallelAgentCards[a].toolCallArgs = MergeToolArgs(@, e)],
         s.parallelAgentCards[a].toolCall,
         MergeToolArgs(s.parallelAgentCards[a].toolCallArgs, e), ModeOr(e, "json"))
  ELSE s
HandleToolCallParallel(s, e) ==
  IF e.done THEN ToolCallParallelDone(s, e.agent_name)
  ELSE ToolCallParallelArgs(
         ToolCallParallelOpen(
           ToolCallParallelSwitch(EnsureAgentCards(s, e.agent_name), e.agent_name, e),
           e.agent_name, e),
         e.agent_name, e)

\* a one-off card with content, placed in the agent's window
OneOffCardInWindow(s, a, title, content) ==
  AddContentToParallelWindow(
    UpdateCardContent(CreateCollapsibleCard(s, title), NewId(s), content, "text"),
    a, NewId(s))
ToolOutputParallelCard(s, e) ==
  SetTimeout(OneOffCardInWindow(s, e.agent_name, "Tool output", OrEmpty(e.output)),
             "card", NewId(s), ToolOutputDelayMs)
HandleToolOutputParallel(s, e) ==
  ToolOutputParallelCard(EnsureAgentCards(s, e.agent_name), e)

DeltaParallelDone(s, a) ==
  IF AgentCard(s, a, "output") # NoCard
  THEN [CompleteCard(s, s.parallelAgentCards[a].output, FALSE)
          EXCEPT !.parallelAgentCards[a].output = NoCard]
  ELSE s
DeltaParallelOpen(s, a) ==
  IF s.parallelAgentCards[a].output = NoCard
  THEN AddContentToParallelWindow(
         [CreateCollapsibleCard(s, "Analysis")
            EXCEPT !.parallelAgentCards[a].output = NewId(s),
                   !.parallelAgentCards[a].outputContent = EmptyStr],
         a, NewId(s))
  ELSE s
DeltaParallelAppend(s, a, e) ==
  UpdateCardContent(
    [s EXCEPT !.parallelAgentCards[a].outputContent = @ \o e.content[1]],
    s.parallelAgentCards[a].output,
    s.parallelAgentCards[a].outputContent \o e.content[1], "markdown")
HandleDeltaParallel(s, e) ==
  IF e.done THEN DeltaParallelDone(s, e.agent_name)
  ELSE IF Truthy(e.content)
  THEN DeltaParallelAppend(
         DeltaParallelOpen(EnsureAgentCards(s, e.agent_name), e.agent_name),
         e.agent_name, e)
  ELSE s

\* handleExcelAgentParallel runs after dispatchEvent has made sure that
\* parallelAgentCards[a] exists
ExcelParallelRetitle(s, a, e) ==
  IF Truthy(e.title)
  THEN [s EXCEPT !.cards[s.parallelAgentCards[a].excelTask].title = e.title[1]]
  ELSE s
ExcelParallelDoneCard(s, a, e) ==
  IF s.parallelAgentCards[a].excelTask # NoCard
  THEN [CompleteCard(ExcelParallelRetitle(s, a, e), s.parallelAgentCards[a].excelTask, FALSE)
          EXCEPT !.parallelAgentCards[a].excelTask = NoCard,
                 !.parallelAgentCards[a].excelTaskContent = EmptyStr]
  ELSE s
ExcelParallelDoneNode(s, a) ==
  IF s.parallelAgentCards[a].excelTaskNodeId # 0
  THEN [CompleteWorkflowNode(s, s.parallelAgentCards[a].excelTaskNodeId)
          EXCEPT !.parallelAgentCards[a].excelTaskNodeId = 0]
  ELSE s
ExcelParallelPrevious(s, a) ==
  IF s.parallelAgentCards[a].lastActiveCard # NoCard
     /\ s.parallelAgentCards[a].lastActiveCard # s.parallelAgentCards[a].excelTask
  THEN CompleteCard(s, s.parallelAgentCards[a].lastActiveCard, FALSE)
  ELSE s
ExcelParallelCreate(s, a, e) ==
  CreateWorkflowNode(AddContentToParallelWindow(
    [CreateCollapsibleCard(s, ExcelTitle(e))
       EXCEPT !.parallelAgentCards[a].excelTask = NewId(s),
              !.parallelAgentCards[a].lastActiveCard = NewId(s),
              !.parallelAgentCards[a].excelTaskContent = EmptyStr,
              !.parallelAgentCards[a].excelTaskNodeId = Len(s.workflowNodes) + 1],
    a, NewId(s)))
ExcelParallelOpen(s, a, e) ==
  IF s.parallelAgentCards[a].excelTask = NoCard
  THEN ExcelParallelCreate(ExcelParallelPrevious(s, a), a, e)
  ELSE s
ExcelParallelAppend(s, a, e) ==
  UpdateCardContent(
    [s EXCEPT !.parallelAgentCards[a].excelTaskContent = ExcelBuffer(@, e)],
    s.parallelAgentCards[a].excelTask,
    ExcelBuffer(s.parallelAgentCards[a].excelTaskContent, e), ModeOr(e, "text"))
HandleExcelAgentParallel(s, e) ==
  IF e.done
  THEN ExcelParallelDoneNode(ExcelParallelDoneCard(s, e.agent_name, e), e.agent_name)
  ELSE IF Truthy(e.content)
  THEN ExcelParallelAppend(ExcelParallelOpen(s, e.agent_name, e), e.agent_name, e)
  ELSE s

\* ------------------------------------------------- tool_log, run_item, done
\* a one-off card with content, left in #chat-messages
OneOffCard(s, title, content) ==
  UpdateCardContent(CreateCollapsibleCard(s, title), NewId(s), content, "text")

ToolLogParallel(s, e) ==
  SetTimeout(OneOffCardInWindow(s, e.agent_name, "Tool Log", OrEmpty(e.message)),
             "card", NewId(s), ToolLogDelayMs)
\* normal mode: the previous card is completed, the pointer cleared afterwards
ToolLogNormalCard(s, e) ==
  [SetTimeout(OneOffCard(s, "Tool Log", OrEmpty(e.message)),
              "card", NewId(s), ToolLogDelayMs)
     EXCEPT !.lastActiveCard = NoCard]
HandleToolLog(s, e) ==
  IF ShouldRouteToParallel(s, e)
  THEN ToolLogParallel(EnsureAgentCards(s, e.agent_name), e)
  ELSE ToolLogNormalCard(CompleteCard(s, s.lastActiveCard, FALSE), e)

\* the item_type lookup table: card title
RunItemTitle(e) ==
  CASE e.item_type = "reasoning_item" -> "Reasoning Item"
    [] e.item_type = "tool_call_item" -> "Tool Call"
    [] e.item_type = "tool_call_output_item" -> "Tool Output"
    [] e.item_type = "handoff_call_item" -> "Handoff"
    [] e.item_type = "handoff_output_item" -> "Handoff Output"
    [] OTHER -> "Run Item"

\* the item_type lookup table: card content (the per-type field of the event is
\* carried in e.payload)
RunItemContent(e) ==
  CASE e.item_type = "reasoning_item" ->
         IF Truthy(e.payload) THEN e.payload[1] ELSE Str("No reasoning summary")
    [] e.item_type = "handoff_output_item" -> Str("From/To")
    [] OTHER -> OrEmpty(e.payload)

\* the clean slate taken in both modes
RunItemPrepare_BothModes(s, e) == CompleteAllActiveCards(s)
RunItemPrepare(s, e) ==
  IF ~ShouldRouteToParallel(s, e) THEN CompleteAllActiveCards(s) ELSE s
\* ShouldRouteToParallel is evaluated once, on entry, and reused
RunItemCard(s, e, route) ==
  SetTimeout(
    IF route
    THEN AddContentToParallelWindow(
           EnsureAgentCards(OneOffCard(s, RunItemTitle(e), RunItemContent(e)),
                            e.agent_name),
           e.agent_name, NewId(s))
    ELSE OneOffCard(s, RunItemTitle(e), RunItemContent(e)),
    "card", NewId(s), RunItemDelayMs)
HandleRunItem(s, e) ==
  RunItemCard(RunItemPrepare(s, e), e, ShouldRouteToParallel(s, e))

\* completeCard(card, true) for every .execution-card under #chat-messages
RECURSIVE CollapseAllFrom(_, _)
CollapseAllFrom(s, i) ==
  IF i > Len(s.cards) THEN s
  ELSE CollapseAllFrom(IF CardAttached(s, i) THEN CompleteCard(s, i, TRUE) ELSE s, i + 1)

DoneFinalOutput_NoCollapse(s, e) ==
  AddFinalAnswerBubble(StopTotalTimeTimer(CompleteLastActive(s)), e.final_output[1])
DoneFinalOutput(s, e) ==
  AddFinalAnswerBubble(
    CollapseAllFrom(StopTotalTimeTimer(CompleteLastActive(s)), 1),
    e.final_output[1])
HandleDone(s, e) ==
  IF e.terminate_card THEN CompleteAllActiveCards(s)
  ELSE IF Truthy(e.final_output) THEN DoneFinalOutput(s, e)
  ELSE CompleteLastActive(s)

\* document.querySelector(`#analysis-${id}`) reads the text as a CSS selector:
\* the id selector ends at the first '.', what follows is a class selector.
IdSelectorOf(id) ==
  IF \E i \in 1..Len(id) : id[i] = "."
  THEN SubSeq(id, 1, (CHOOSE i \in 1..Len(id) :
                        id[i] = "." /\ \A j \in 1..(i - 1) : id[j] # ".") - 1)
  ELSE id
HasClassSelector(id) == \E i \in 1..Len(id) : id[i] = "."
\* the rendered elements carry an id and no class
QuerySelectorMatches(el, id) == el.id = IdSelectorOf(id) /\ ~HasClassSelector(id)

RenderAnalysis(s, e) ==
  IF \E i \in 1..Len(s.analysisEls) : QuerySelectorMatches(s.analysisEls[i], e.id) THEN s
  ELSE [s EXCEPT !.analysisEls = Append(s.analysisEls, [id |-> e.id, content |-> e.content])]

\* `event.error || 'Stream error'`
ErrorMessageOf(e) == IF Truthy(e.error) THEN e.error[1] ELSE Str("Stream error")

\* ------------------------------------------------------------- dispatcher
\* the if / else-if chain of dispatchEvent has no final else
Unrecognised_AsTerminate(s, e) == CompleteAllActiveCards(s)
Unrecognised(s, e) == s

DispatchEvent(s, e) ==
  CASE e.type = "parallel_group.start" -> HandleParallelGroupStart(s, e)
    [] e.type = "parallel_task.start" -> HandleParallelTaskStart(s, e)
    [] e.type = "parallel_task.done" -> HandleParallelTaskDone(s, e)
    [] e.type = "parallel_task.error" -> HandleParallelTaskError(s, e)
    [] e.type = "parallel_group.done" -> HandleParallelGroupDone(s)
    [] e.type = "merge.start" -> HandleMergeStart(s)
    [] e.type = "merge.done" -> HandleMergeDone(s)
    [] e.type = "analysis" -> RenderAnalysis(s, e)
    [] e.type = "reasoning" ->
         IF ShouldRouteToParallel(s, e) THEN HandleReasoningParallel(s, e)
         ELSE HandleReasoningNormal(s, e)
    [] e.type = "tool_call" ->
         IF ShouldRouteToParallel(s, e) THEN HandleToolCallParallel(s, e)
         ELSE HandleToolCallNormal(s, e)
    [] e.type = "tool_output" ->
         IF ShouldRouteToParallel(s, e) THEN HandleToolOutputParallel(s, e)
         ELSE HandleToolOutputNormal(s, e)
    [] e.type = "tool_log" -> HandleToolLog(s, e)
    [] e.type = "delta" ->
         IF ShouldRouteToParallel(s, e) THEN HandleDeltaParallel(s, e)
         ELSE HandleDeltaNormal(s, e)
    [] e.type = "run_item" -> HandleRunItem(s, e)
    [] e.type = "excel_agent_event" ->
         IF ShouldRouteToParallel(s, e)
         THEN HandleExcelAgentParallel(EnsureAgentCards(s, e.agent_name), e)
         ELSE HandleExcelAgentNormal(s, e)
    [] e.type = "done" -> HandleDone(s, e)
    [] e.type = "error" -> Throw(HideTotalTimeDisplay(s), ErrorMessageOf(e))
    [] OTHER -> Unrecognised(s, e)

\* ------------------------------------------------------------------ events
BaseEvent ==
  [type |-> "", agent_name |-> "", content |-> Absent, done |-> FALSE,
   tool_name |-> Absent, arguments |-> Absent, arguments_delta |-> Absent,
   mode |-> "", output |-> Absent, message |-> Absent, item_type |-> "",
   payload |-> Absent, title |-> Absent, clean |-> FALSE, error |-> Absent,
   final_output |-> Absent, terminate_card |-> FALSE, tasks |-> <<>>,
   has_group_idx |-> FALSE, id |-> EmptyStr]

Ev(type) == [BaseEvent EXCEPT !.type = type]

\* ------------------------------------------------------------ SSE framing
\* The response text is a sequence of tokens: the two halves of the 'data: '
\* prefix, newline, blank, one JSON payload, text that is no JSON, and the
\* '[DONE]' sentinel.
Tok(k) == [k |-> k, ev |-> BaseEvent]
P1 == Tok("dat")
P2 == Tok("a: ")
NL == Tok("nl")
SP == Tok("sp")
Bad == Tok("bad")
Sentinel == Tok("[DONE]")
J(e) == [k |-> "json", ev |-> e]
Frame(e) == <<P1, P2, J(e), NL>>

\* position of the first newline of a text that has one
FirstNL(text) ==
  CHOOSE k \in 1..Len(text) : text[k] = NL /\ \A j \in 1..(k - 1) : text[j] # NL

\* text.split('\n'): the pieces between newlines, at least one piece
RECURSIVE SplitLines(_)
SplitLines(text) ==
  IF \A i \in 1..Len(text) : text[i] # NL THEN <<text>>
  ELSE <<SubSeq(text, 1, FirstNL(text) - 1)>>
         \o SplitLines(SubSeq(text, FirstNL(text) + 1, Len(text)))

StartsWithPrefix(line) == Len(line) >= 2 /\ line[1] = P1 /\ line[2] = P2

RECURSIVE Trim(_)
Trim(x) ==
  IF x = <<>> THEN x
  ELSE IF x[1] = SP THEN Trim(Tail(x))
  ELSE IF x[Len(x)] = SP THEN Trim(SubSeq(x, 1, Len(x) - 1))
  ELSE x

\* JSON.parse(data) succeeds
Parses_Anything(data) == Len(data) = 1
Parses(data) == Len(data) = 1 /\ data[1].k = "json"

\* `line.slice(6).trim()`
DataOf(line) == Trim(SubSeq(line, 3, Len(line)))

\* try { dispatchEvent(JSON.parse(data)) } catch (e) { console.error(...) }:
\* whatever dispatchEvent throws ends here
DispatchCaught(s, e) ==
  [DispatchEvent([s EXCEPT !.hist = Append(s.hist, e),
                           !.nEvents = s.nEvents + 1,
                           !.touched = NoCard], e)
     EXCEPT !.thrown = <<>>]

\* the sentinel handed to the dispatcher like a frame
ProcessData_SentinelDispatched(s, data) ==
  IF ~Parses(data) /\ data # <<Sentinel>> THEN s
  ELSE DispatchCaught(s, data[1].ev)
ProcessData(s, data) ==
  IF data = <<Sentinel>> THEN s
  ELSE IF ~Parses(data) THEN s
  ELSE DispatchCaught(s, data[1].ev)

\* one iteration of `for (const line of lines)`
ProcessLine(s, line) ==
  IF ~StartsWithPrefix(line) THEN s ELSE ProcessData(s, DataOf(line))

RECURSIVE ProcessLines(_, _, _)
ProcessLines(s, lines, i) ==
  IF i > Len(lines) THEN s
  ELSE ProcessLines(ProcessLine(s, lines[i]), lines, i + 1)

\* ------------------------------------------------------- stream controller
\* sendMessage's finally block
RestoreSendButton_KeepStop(s) == [s EXCEPT !.isStreaming = FALSE]
RestoreSendButton(s) == [s EXCEPT !.stopMode = FALSE, !.isStreaming = FALSE]

\* streamChatResponse's finally block
ReleaseAbortController(s) == [s EXCEPT !.currentAbortController = 0]

\* sendMessage's catch block for an error that is no AbortError
ReportSendFailure_ToastOnly(s, msg) == ShowToast(s, "toast_send_failed")
ReportSendFailure(s, msg) ==
  AddMessage(ShowToast(s, "toast_send_failed"), "assistant", msg)

\* a non-abort error leaves streamChatResponse (catch, rethrow, finally) and is
\* handled by sendMessage (catch, finally)
FailPath(s, msg) ==
  RestoreSendButton(ReportSendFailure(
    ReleaseAbortController(HideTotalTimeDisplay(s)), msg))

\* streamChatResponse returns (end of stream, or AbortError swallowed)
ReturnPath(s) == RestoreSendButton(ReleaseAbortController(s))

\* stopAgent
\* stopAgent without the test of the abort handle
StopAgent_Unguarded(s) ==
  ShowToast(
    AddMessage(HideTotalTimeDisplay(CompleteLastActive(s)),
               "system", Str("interrupted")),
    "toast_execution_stopped")
StopAgent(s) ==
  IF s.currentAbortController = 0 THEN s
  ELSE ShowToast(
         AddMessage(HideTotalTimeDisplay(CompleteLastActive(s)),
                    "system", Str("interrupted")),
         "toast_execution_stopped")

\* sendMessage up to `isStreaming = true`
BeginSend(s) ==
  [AddMessage(s, "user", Str("q")) EXCEPT !.stopMode = TRUE, !.isStreaming = TRUE]

\* streamChatResponse up to `await fetch(...)`
BeginStream(s, controller) ==
  StartTotalTimeTimer(
    [ResetStreamState(s) EXCEPT !.currentAbortController = controller])

\* sendMessage on an idle page, up to the first await of streamChatResponse
SendMessage_WhileStreaming ==
  /\ ~aborted
  /\ sessions < MaxSessions
  /\ Commit([BeginStream(BeginSend(St), sessions + 1)
               EXCEPT !.hist = <<>>, !.touched = NoCard])
  /\ pc' = "fetch" /\ buffer' = <<>> /\ sessions' = sessions + 1
  /\ UNCHANGED <<aborted, stream, pos, now>>
SendMessage ==
  /\ ~isStreaming /\ pc = "idle" /\ ~aborted
  /\ sessions < MaxSessions
  /\ Commit([BeginStream(BeginSend(St), sessions + 1)
               EXCEPT !.hist = <<>>, !.touched = NoCard])
  /\ pc' = "fetch" /\ buffer' = <<>> /\ sessions' = sessions + 1
  /\ UNCHANGED <<aborted, stream, pos, now>>

\* sendMessage while streaming: the click stops the agent
StopClick ==
  /\ isStreaming /\ ~aborted
  /\ Commit(StopAgent(St))
  /\ aborted' = (currentAbortController # 0)
  /\ UNCHANGED <<pc, buffer, stream, pos, now, sessions>>

\* The rejection caused by abort() reaches streamChatResponse.  While
\* response.json() of a non-2xx response is pending, the rejection is taken by
\* its .catch() and a plain Error is thrown instead.
AbortContinuation ==
  /\ aborted
  /\ IF pc = "errbody"
     THEN Commit(FailPath(St, Str("Request failed")))
     ELSE Commit(ReturnPath(St))
  /\ aborted' = FALSE /\ pc' = "idle"
  /\ UNCHANGED <<buffer, stream, pos, now, sessions>>

FetchOk ==
  /\ pc = "fetch" /\ ~aborted
  /\ pc' = "read"
  /\ Commit(St)
  /\ UNCHANGED <<aborted, buffer, stream, pos, now, sessions>>

FetchNotOk ==
  /\ pc = "fetch" /\ ~aborted
  /\ pc' = "errbody"
  /\ Commit(St)
  /\ UNCHANGED <<aborted, buffer, stream, pos, now, sessions>>

\* response.json() settles either way: `throw new Error(error.detail || ...)`
ErrBodyDone ==
  /\ pc = "errbody" /\ ~aborted
  /\ Commit(FailPath(St, Str("Request failed")))
  /\ pc' = "idle"
  /\ UNCHANGED <<aborted, buffer, stream, pos, now, sessions>>

\* fetch() or reader.read() rejects with a network error
TransportFails ==
  /\ pc \in {"fetch", "read"} /\ ~aborted
  /\ Commit(FailPath(St, Str("network error")))
  /\ pc' = "idle"
  /\ UNCHANGED <<aborted, buffer, stream, pos, now, sessions>>

\* `lines = buffer.split('\n'); buffer = lines.pop() || ''`
AllButLast(parts) == SubSeq(parts, 1, Len(parts) - 1)
Last_Dropped(parts) == <<>>
Last(parts) == parts[Len(parts)]

\* one turn of the read loop with a chunk of text
ReadChunk(chunk) ==
  /\ pc = "read" /\ ~aborted
  /\ Commit(ProcessLines(St, AllButLast(SplitLines(buffer \o chunk)), 1))
  /\ buffer' = Last(SplitLines(buffer \o chunk))
  /\ UNCHANGED <<pc, aborted, now, sessions>>

\* reader.read() reports done: the loop ends and streamChatResponse returns
ReadDone ==
  /\ pc = "read" /\ ~aborted
  /\ Commit(ReturnPath(St))
  /\ pc' = "idle"
  /\ UNCHANGED <<aborted, buffer, stream, pos, now, sessions>>

\* ------------------------------------------------------------------ timers
TimeoutDue(i) ==
  /\ timeouts[i].due <= now
  /\ \A j \in 1..Len(timeouts) :
       timeouts[j].due > timeouts[i].due \/ (timeouts[j].due = timeouts[i].due /\ j >= i)

RemoveAt(seq, i) == SubSeq(seq, 1, i - 1) \o SubSeq(seq, i + 1, Len(seq))

\* the callback of handleToolOutputNormal's setTimeout
ToolOutputNormalCallback(s) ==
  IF s.currentToolOutputCard # NoCard
  THEN [CompleteCard(s, s.currentToolOutputCard, FALSE)
          EXCEPT !.lastActiveCard = NoCard, !.currentToolOutputCard = NoCard]
  ELSE s

\* the callbacks `if (card) completeCard(card)`
CardCallback(s, c) == IF c # NoCard THEN CompleteCard(s, c, FALSE) ELSE s

RunTimeout(s, t) ==
  IF t.kind = "toolOutputNormal" THEN ToolOutputNormalCallback(s)
  ELSE CardCallback(s, t.card)

FireTimeout ==
  /\ ~aborted
  /\ \E i \in 1..Len(timeouts) :
       /\ TimeoutDue(i)
       /\ Commit(RunTimeout([St EXCEPT !.timeouts = RemoveAt(timeouts, i)], timeouts[i]))
  /\ UNCHANGED <<pc, aborted, buffer, stream, pos, now, sessions>>

\* 100 ms pass: the interval callback of every running card updates its time
CardTimerTick(s, t) ==
  [s EXCEPT !.cards = [c \in 1..Len(s.cards) |->
      IF s.cards[c].completed THEN s.cards[c]
      ELSE [s.cards[c] EXCEPT !.timeText = t - s.cards[c].startTime]]]

Tick(horizon) ==
  /\ ~aborted
  /\ now + CardTimerIntervalMs <= horizon
  /\ \A i \in 1..Len(timeouts) : timeouts[i].due > now
  /\ \/ timeouts # <<>>
     \/ \E c \in 1..Len(cards) : ~cards[c].completed
  /\ now' = now + CardTimerIntervalMs
  /\ Commit(CardTimerTick(St, now + CardTimerIntervalMs))
  /\ UNCHANGED <<pc, aborted, buffer, stream, pos, sessions>>

\* user click on a card header
ToggleCard ==
  /\ ~aborted
  /\ \E c \in 1..Len(cards) : Commit(ToggleExecutionCard(St, c))
  /\ UNCHANGED <<pc, aborted, buffer, stream, pos, now, sessions>>

\* --------------------------------------------------------- specifications
\* the page after load: nothing rendered
InitPage ==
  /\ cards = <<>>
  /\ lastActiveCard = NoCard /\ currentReasoningCard = NoCard
  /\ currentToolCallCard = NoCard /\ currentToolOutputCard = NoCard
  /\ currentOutputCard = NoCard /\ currentExcelTaskCard = NoCard
  /\ currentExcelTaskNodeId = 0
  /\ reasoningContent = EmptyStr /\ toolCallArgs = EmptyStr
  /\ toolOutputContent = EmptyStr /\ outputContent = EmptyStr
  /\ currentToolName = Absent /\ excelTaskContent = EmptyStr
  /\ totalElapsedTime = Absent
  /\ windows = <<>> /\ containers = <<>>
  /\ parallelWindows = <<>> /\ isParallelMode = FALSE
  /\ currentParallelContainer = 0 /\ parallelAgentCards = <<>>
  /\ workflowNodes = <<>> /\ timeouts = <<>>
  /\ toasts = <<>> /\ analysisEls = <<>>
  /\ aborted = FALSE /\ buffer = <<>>
  /\ now = 0 /\ hist = <<>> /\ nEvents = 0 /\ touched = NoCard

\* no message sent yet
InitIdle ==
  /\ messages = <<>>
  /\ totalTimeStartTime = Absent /\ totalTimeTimer = 0
  /\ intervals = {} /\ nextInterval = 1
  /\ isStreaming = FALSE /\ stopMode = FALSE /\ currentAbortController = 0
  /\ pc = "idle" /\ sessions = 0

\* the first message was sent and its response has begun: streamChatResponse
\* waits in reader.read()
InitReading ==
  /\ messages = <<[role |-> "user", content |-> Str("q")]>>
  /\ totalTimeStartTime = Some(0) /\ totalTimeTimer = 1
  /\ intervals = {1} /\ nextInterval = 2
  /\ isStreaming = TRUE /\ stopMode = TRUE /\ currentAbortController = 1
  /\ pc = "read" /\ sessions = 1

Init == InitPage /\ InitIdle /\ stream = <<>> /\ pos = 0

\* ----------------------------------------------------------- event values
FragA == Str("a")
FragB == Str("b")

Reasoning(ag, c) == [Ev("reasoning") EXCEPT !.agent_name = ag, !.content = Some(c)]
ReasoningDone(ag) == [Ev("reasoning") EXCEPT !.agent_name = ag, !.done = TRUE]
Delta(ag, c) == [Ev("delta") EXCEPT !.agent_name = ag, !.content = Some(c)]
DeltaDone(ag) == [Ev("delta") EXCEPT !.agent_name = ag, !.done = TRUE]
ToolCall(ag, name, args, delta) ==
  [Ev("tool_call") EXCEPT !.agent_name = ag, !.tool_name = name,
                          !.arguments = args, !.arguments_delta = delta]
ToolCallDone(ag, name) ==
  [Ev("tool_call") EXCEPT !.agent_name = ag, !.tool_name = name, !.done = TRUE]
ToolOutput(ag, out) == [Ev("tool_output") EXCEPT !.agent_name = ag, !.output = Some(out)]
ToolLog(ag, msg) == [Ev("tool_log") EXCEPT !.agent_name = ag, !.message = Some(msg)]
RunItem(ag, it) == [Ev("run_item") EXCEPT !.agent_name = ag, !.item_type = it]
Excel(ag, c, clean) ==
  [Ev("excel_agent_event") EXCEPT !.agent_name = ag, !.content = Some(c), !.clean = clean]
ExcelDone(ag) == [Ev("excel_agent_event") EXCEPT !.agent_name = ag, !.done = TRUE]
GroupStart(tasks) ==
  [Ev("parallel_group.start") EXCEPT !.tasks = tasks, !.has_group_idx = TRUE]
TaskEv(type, ag) == [Ev(type) EXCEPT !.agent_name = ag]
DoneFinal(out) == [Ev("done") EXCEPT !.final_output = Some(out)]
DoneTerminate == [Ev("done") EXCEPT !.terminate_card = TRUE]
DoneBare == Ev("done")
ErrorEv(msg) == [Ev("error") EXCEPT !.error = msg]

\* one complete frame arrives and is processed
ReadFrame(e) ==
  /\ nEvents < MaxEvents
  /\ Len(cards) < MaxCards
  /\ ReadChunk(Frame(e))
  /\ UNCHANGED <<stream, pos>>

\* the send / stop / error flow
SessionEvents ==
  {Reasoning("", FragA), ReasoningDone(""), ToolLog("", FragA),
   ErrorEv(Some(Str("boom"))), ErrorEv(Absent)}

Next ==
  \/ SendMessage
  \/ StopClick
  \/ AbortContinuation
  \/ FetchOk
  \/ FetchNotOk
  \/ ErrBodyDone
  \/ TransportFails
  \/ \E e \in SessionEvents : ReadFrame(e)
  \/ ReadDone
  \/ FireTimeout
  \/ Tick(ShortNow)

Spec == Init /\ [][Next]_vars

\* ------------------------------------------------------- claims: helpers
\* the chat messages appended since the last user message
RECURSIVE SinceLastUser(_)
SinceLastUser(ms) ==
  IF ms = <<>> \/ ms[Len(ms)].role = "user" THEN <<>>
  ELSE Append(SinceLastUser(SubSeq(ms, 1, Len(ms) - 1)), ms[Len(ms)])

IsAssistant(m) == m.role = "assistant"
IsSystem(m) == m.role = "system"
IsFinal(m) == m.role = "final"

\* what a user sees of a card's lifecycle
Observable(card) ==
  [completed |-> card.completed, timeText |-> card.timeText,
   statusSuccess |-> card.statusSuccess, expanded |-> card.expanded]

\* the step handed exactly one event to dispatchEvent
DispatchedOne == nEvents' = nEvents + 1 /\ hist' # <<>>

\* ---------------------------------------------------------------- C1
\* C1: once an `error` event has been dispatched in a stream, the total timer
\* is stopped, the error has propagated to the send flow (the stream is over
\* and the page idle), the messages of this exchange hold exactly one
\* assistant-role message and it carries the event's error text (or the
\* default text), and no later frame of the stream has been dispatched.
C1_ErrorEventPropagates ==
  \A i \in 1..Len(hist) :
    hist[i].type = "error" =>
      /\ i = Len(hist)
      /\ totalTimeTimer = 0
      /\ pc = "idle" /\ ~isStreaming
      /\ SelectSeq(SinceLastUser(messages), IsAssistant)
           = <<[role |-> "assistant", content |-> ErrorMessageOf(hist[i])]>>

\* ---------------------------------------------------------------- C3
\* C3: the step in which stopAgent aborts the request stops the total timer
\* and appends exactly one system interruption notice; the step in which the
\* abort reaches streamChatResponse returns without an error: it adds no chat
\* message (so no assistant-role error message) and no notification (so no
\* send-failed toast), and leaves the timer stopped.
C3_CancellationNeverAnError ==
  [][/\ (~aborted /\ aborted') =>
          /\ totalTimeTimer' = 0
          /\ messages' = Append(messages,
                                [role |-> "system", content |-> Str("interrupted")])
     /\ aborted =>
          /\ messages' = messages
          /\ toasts' = toasts
          /\ totalTimeTimer' = 0]_vars

\* ---------------------------------------------------------------- C4
\* C4: completeCard is idempotent: once a card is completed, no later call of
\* completeCard on it (none of the program's steps) changes its completed
\* flag, its frozen elapsed time, its status indicator or its expanded flag.
C4_CompleteCardIdempotent ==
  [][\A c \in 1..Len(cards) :
       cards[c].completed => Observable(cards'[c]) = Observable(cards[c])]_vars

\* ------------------------------------------------- parallel execution flow
ParallelEvents ==
  {GroupStart(<<"A">>), Reasoning("A", FragA), Reasoning("B", FragB),
   ToolLog("A", FragA), ToolLog("", FragB), DoneFinal(Str("ans"))}

NextParallel ==
  \/ SendMessage
  \/ StopClick
  \/ AbortContinuation
  \/ FetchOk
  \/ \E e \in ParallelEvents : ReadFrame(e)
  \/ ReadDone
  \/ FireTimeout
  \/ Tick(ShortNow)

SpecParallel == Init /\ [][NextParallel]_vars

\* an event that renders content: a fragment, a tool call, a one-off card
ContentBearing(e) ==
  \/ e.type \in {"reasoning", "delta", "excel_agent_event"} /\ ~e.done /\ Truthy(e.content)
  \/ e.type = "tool_call" /\ ~e.done
  \/ e.type \in {"tool_output", "tool_log", "run_item"}

IsDoneFinal(e) == e.type = "done" /\ ~e.terminate_card /\ Truthy(e.final_output)

\* ---------------------------------------------------------------- C2
\* C2: when stopAgent cancels a stream, every card in the document (main
\* stream and parallel windows, cards with a pending delayed completion
\* included) is completed afterwards, and the cancellation collapses none.
C2_CancellationCompletesAllCards ==
  [][(~aborted /\ aborted') =>
       \A c \in 1..Len(cards) :
         CardAttached(St, c) =>
           /\ cards'[c].completed
           /\ cards'[c].expanded = cards[c].expanded]_vars

\* ---------------------------------------------------------------- C5
\* C5: the card into which the last content-bearing event was rendered exists
\* (the event was not dropped) and is in the document; it sits in the window
\* of agent X exactly when a parallel session is active, the event names X and
\* X has a window, and in the main stream in every other case.
C5_ParallelRoutingLaw ==
  (hist # <<>> /\ ContentBearing(hist[Len(hist)])) =>
    /\ touched # NoCard
    /\ CardAttached(St, touched)
    /\ IF ShouldRouteToParallel(St, hist[Len(hist)])
       THEN cards[touched].loc = parallelWindows[hist[Len(hist)].agent_name]
       ELSE cards[touched].loc = 0

\* ---------------------------------------------------------------- C6
\* C6: the step that handles a `done` event with final_output appends exactly
\* one final-answer bubble holding the payload and stops the total timer; and
\* as long as that event is the last one dispatched (while pending delayed
\* completions fire), every execution card in the document is completed and
\* collapsed.
C6_FinalOutputCollapsesAll ==
  [][/\ (DispatchedOne /\ IsDoneFinal(hist'[Len(hist')])) =>
          /\ messages' = Append(messages,
               [role |-> "final", content |-> hist'[Len(hist')].final_output[1]])
          /\ totalTimeTimer' = 0
          /\ totalTimeTimer \notin intervals'
     /\ (hist' # <<>> /\ IsDoneFinal(hist'[Len(hist')])) =>
          \A c \in 1..Len(cards') :
            CardAttached(St, c)' => cards'[c].completed /\ ~cards'[c].expanded]_vars

\* a done event with final_output was handled while a card in a parallel
\* window and a card in the main stream each had a delayed completion pending,
\* and both completions have fired since
C6_Witness ==
  /\ hist # <<>> /\ IsDoneFinal(hist[Len(hist)])
  /\ timeouts = <<>>
  /\ \E c, d \in 1..Len(cards) :
       /\ cards[c].loc # 0 /\ cards[c].title = "Tool Log"
       /\ cards[d].loc = 0 /\ cards[d].title = "Tool Log"
       /\ cards[c].timeText > 0

\* ------------------------------------------------------------ SSE framing
\* the lines a server may send
E1 == Reasoning("", FragA)
E2 == Reasoning("", FragB)
Segments ==
  {Frame(E1), Frame(E2),
   <<P1, P2, SP, J(E2), SP, NL>>,     \* payload padded with blanks
   <<P1, P2, Sentinel, NL>>,          \* data: [DONE]
   <<P1, P2, Bad, NL>>,               \* data line that is no JSON
   <<J(E1), NL>>,                     \* line without the data prefix
   <<P2, J(E1), NL>>,                 \* line with half a prefix
   <<NL>>,                            \* blank line
   <<P1, P2, J(E1)>>}                 \* a line that is not terminated

RECURSIVE Concat(_)
Concat(segs) == IF segs = <<>> THEN <<>> ELSE segs[1] \o Concat(Tail(segs))

Streams ==
  {Concat(segs) : segs \in UNION {[1..n -> Segments] : n \in 1..MaxSegments}}

InitFraming ==
  InitPage /\ InitReading /\ stream \in Streams /\ pos = 0

\* reader.read() resolves with the next n tokens of the response
DeliverChunk ==
  \E n \in 1..(Len(stream) - pos) :
    /\ ReadChunk(SubSeq(stream, pos + 1, pos + n))
    /\ pos' = pos + n
    /\ UNCHANGED stream

\* reader.read() resolves with done after the whole response
TransportEnds == pos = Len(stream) /\ ReadDone

NextFraming == DeliverChunk \/ TransportEnds

SpecFraming == InitFraming /\ [][NextFraming]_vars

\* What the response says, read off the whole text at once: the events of its
\* complete lines.  `cur` is the line being scanned.
PayloadOf(line) ==
  IF Len(line) >= 3 /\ line[1] = P1 /\ line[2] = P2
     /\ \E i \in 3..Len(line) :
          /\ line[i].k = "json"
          /\ \A j \in 3..Len(line) : j # i => line[j] = SP
  THEN <<(CHOOSE x \in {line[i] : i \in 3..Len(line)} : x.k = "json").ev>>
  ELSE <<>>

RECURSIVE PayloadsOf(_, _)
PayloadsOf(text, cur) ==
  IF text = <<>> THEN <<>>
  ELSE IF text[1] = NL THEN PayloadOf(cur) \o PayloadsOf(Tail(text), <<>>)
  ELSE PayloadsOf(Tail(text), Append(cur, text[1]))

\* the text after the last newline
RECURSIVE OpenLine(_, _)
OpenLine(text, cur) ==
  IF text = <<>> THEN cur
  ELSE IF text[1] = NL THEN OpenLine(Tail(text), <<>>)
  ELSE OpenLine(Tail(text), Append(cur, text[1]))

Delivered == SubSeq(stream, 1, pos)

\* ---------------------------------------------------------------- C7
\* C7 as stated: once the transport has delivered the whole response, the
\* events dispatched are the JSON payloads of all data-prefixed lines of the
\* response, its last line included whether or not a newline ends it.
C7_EveryLineOfTheStream ==
  (pos = Len(stream) /\ pc = "idle") => hist = PayloadsOf(stream \o <<NL>>, <<>>)

\* C7 (amended): however the transport cuts the response into chunks, the events
\* dispatched so far are exactly the JSON payloads of the complete
\* (newline-terminated) data-prefixed lines delivered so far, the sentinel and
\* unparseable lines left out, each once and in stream order; and the line
\* the last chunk left incomplete is held, whole, for the next chunk.
C7_FramingIsChunkingInvariant ==
  /\ hist = PayloadsOf(Delivered, <<>>)
  /\ pc = "read" => buffer = OpenLine(Delivered, <<>>)

\* two different events have been dispatched, in the order of the stream, and
\* a chunk has ended inside the data prefix of a further line
C7_Witness ==
  /\ hist = <<E2, E1>>
  /\ pc = "read" /\ buffer = <<P1>>
  /\ pos < Len(stream)

\* ------------------------------------------------------ content fragments
FragmentEvents ==
  {GroupStart(<<"A">>)}
    \cup {Reasoning(ag, c) : ag \in {"", "A"}, c \in {FragA, FragB}}
    \cup {Delta(ag, c) : ag \in {"", "A"}, c \in {FragA, FragB}}

InitStreaming == InitPage /\ InitReading /\ stream = <<>> /\ pos = 0

NextFragments ==
  \/ \E e \in FragmentEvents : ReadFrame(e)
  \/ Tick(ShortNow)

SpecFragments == InitStreaming /\ [][NextFragments]_vars

IsFragment(e) == e.type \in {"reasoning", "delta"} /\ ~e.done /\ Truthy(e.content)

\* the stream so far is a run of reasoning / delta fragments with done
\* absent, after at most a parallel_group.start that opened the session
FragmentRun ==
  /\ hist # <<>>
  /\ IsFragment(hist[1]) \/ hist[1].type = "parallel_group.start"
  /\ \A i \in 2..Len(hist) : IsFragment(hist[i])

\* where the fragments of an event are shown: the agent's window, or "" for
\* the main stream
ShownAt(e) ==
  IF hist[1].type = "parallel_group.start" /\ e.agent_name \in {"A"}
  THEN e.agent_name ELSE ""

\* the ordered concatenation of the fragments of one type shown at one place
RECURSIVE FragmentsSeen(_, _, _)
FragmentsSeen(n, type, place) ==
  IF n = 0 THEN EmptyStr
  ELSE FragmentsSeen(n - 1, type, place)
         \o (IF IsFragment(hist[n]) /\ hist[n].type = type /\ ShownAt(hist[n]) = place
             THEN hist[n].content[1] ELSE EmptyStr)

FragmentTitle(type) == IF type = "reasoning" THEN "Reasoning" ELSE "Analysis"

\* the cards of one type at one place
FragmentCards(type, place) ==
  {c \in 1..Len(cards) :
     /\ cards[c].title = FragmentTitle(type)
     /\ IF place = "" THEN cards[c].loc = 0
        ELSE place \in DOMAIN parallelWindows /\ cards[c].loc = parallelWindows[place]}

\* ---------------------------------------------------------------- C8
\* C8: in a run of reasoning (respectively delta) fragments with done absent,
\* after each fragment there is a single Reasoning (respectively Analysis)
\* card per place (main stream, agent window), its rendered content is the
\* ordered concatenation of all fragments of that type seen so far there, and
\* the card of the last fragment is the one just re-rendered.
C8_FragmentsConcatenate ==
  FragmentRun =>
    /\ \A type \in {"reasoning", "delta"}, place \in {"", "A"} :
         IF FragmentsSeen(Len(hist), type, place) = EmptyStr
         THEN FragmentCards(type, place) = {}
         ELSE /\ Cardinality(FragmentCards(type, place)) = 1
              /\ \A c \in FragmentCards(type, place) :
                   cards[c].content = FragmentsSeen(Len(hist), type, place)
    /\ IsFragment(hist[Len(hist)]) =>
         touched \in FragmentCards(hist[Len(hist)].type, ShownAt(hist[Len(hist)]))

\* after fragments "b" then "a" for agent A, with a main-stream fragment in
\* between, the Reasoning card in A's window shows "ba"
C8_Witness ==
  /\ FragmentRun /\ Len(hist) = 4
  /\ hist[3].agent_name = ""
  /\ \E c \in FragmentCards("reasoning", "A") : cards[c].content = FragB \o FragA

\* ------------------------------------------------------------ tool calls
Snap == Str("s")
Dlt == Str("d")
ToolCallEvents ==
  {GroupStart(<<"A">>)}
    \cup {ToolCall(ag, Some("t1"), Some(Snap), delta) :
            ag \in {"", "A"}, delta \in {Absent, Some(Dlt)}}
    \cup {ToolCall(ag, Some("t1"), args, Some(Dlt)) :
            ag \in {"", "A"}, args \in {Absent, Some(EmptyStr)}}
    \cup {ToolCall(ag, Some("t2"), Absent, Some(Dlt)) : ag \in {"", "A"}}

NextToolCall ==
  \/ \E e \in ToolCallEvents : ReadFrame(e)
  \/ Tick(ShortNow)

SpecToolCall == InitStreaming /\ [][NextToolCall]_vars

\* the replace-then-append law: a snapshot replaces the buffer, otherwise a
\* delta is appended to it
ReplaceThenAppend(buf, e) ==
  IF Has(e.arguments) THEN e.arguments[1]
  ELSE IF Has(e.arguments_delta) THEN buf \o e.arguments_delta[1]
  ELSE buf

\* the step dispatched a tool_call frame with done absent
ToolCallFrame ==
  DispatchedOne /\ hist'[Len(hist')].type = "tool_call" /\ ~hist'[Len(hist')].done

\* ... handled in normal mode (respectively for the agent's window)
ToolCallFrameNormal == ToolCallFrame /\ ~ShouldRouteToParallel(St, hist'[Len(hist')])
ToolCallFrameParallel == ToolCallFrame /\ ShouldRouteToParallel(St, hist'[Len(hist')])

\* the tool-call card the agent of the frame has open before the step
OpenAgentToolCall == AgentCard(St, hist'[Len(hist')].agent_name, "toolCall")

\* ---------------------------------------------------------------- C9
\* C9: a tool_call frame for the tool of the open tool-call card leaves that
\* card's argument buffer at ReplaceThenAppend(buffer, frame): a snapshot
\* replaces the buffer (a delta in the same frame is not appended), a delta
\* alone is appended; a frame that opens the card does the same from the
\* empty buffer.  In normal mode and in parallel mode.
C9_ReplaceThenAppend ==
  [][/\ ToolCallFrameNormal =>
          toolCallArgs' =
            ReplaceThenAppend(IF currentToolCallCard' = currentToolCallCard
                              THEN toolCallArgs ELSE EmptyStr, hist'[Len(hist')])
     /\ ToolCallFrameParallel =>
          parallelAgentCards'[hist'[Len(hist')].agent_name].toolCallArgs =
            ReplaceThenAppend(
              IF parallelAgentCards'[hist'[Len(hist')].agent_name].toolCall
                   = OpenAgentToolCall /\ OpenAgentToolCall # NoCard
              THEN parallelAgentCards[hist'[Len(hist')].agent_name].toolCallArgs
              ELSE EmptyStr,
              hist'[Len(hist')])]_vars

\* what a frame alone can put into an argument buffer
FrameArgs(e) ==
  {EmptyStr}
    \cup (IF Has(e.arguments) THEN {e.arguments[1]} ELSE {})
    \cup (IF Has(e.arguments_delta) THEN {e.arguments_delta[1]} ELSE {})

\* card a is completed, card b is a new running card for the frame's tool
Superseded(a, b, e) ==
  /\ a # NoCard /\ b = Len(cards) + 1 /\ Len(cards') = Len(cards) + 1
  /\ cards'[a].completed /\ ~cards'[a].timerLive
  /\ cards'[a].startTime + cards'[a].timeText <= cards'[b].startTime
  /\ cards'[a].content = cards[a].content
  /\ ~cards'[b].completed
  /\ cards'[b].toolName = e.tool_name[1]
  /\ cards'[b].content \in FrameArgs(e)

\* ---------------------------------------------------------------- C10
\* C10: when a tool_call frame names tool B while the tool-call card of tool
\* A # B is open, the step completes the A card (no later than the B card is
\* created), creates a second, running card for B and leaves A's content
\* alone; B's argument buffer holds nothing of A's arguments, only what the
\* frame itself carries.  In normal mode and in parallel mode.
C10_DifferentToolNewCard ==
  [][/\ (/\ ToolCallFrameNormal
         /\ currentToolCallCard # NoCard
         /\ Has(hist'[Len(hist')].tool_name)
         /\ cards[currentToolCallCard].toolName # hist'[Len(hist')].tool_name[1]) =>
          /\ Superseded(currentToolCallCard, currentToolCallCard', hist'[Len(hist')])
          /\ toolCallArgs' \in FrameArgs(hist'[Len(hist')])
     /\ (/\ ToolCallFrameParallel
         /\ OpenAgentToolCall # NoCard
         /\ Has(hist'[Len(hist')].tool_name)
         /\ cards[OpenAgentToolCall].toolName # hist'[Len(hist')].tool_name[1]) =>
          /\ Superseded(OpenAgentToolCall,
                        parallelAgentCards'[hist'[Len(hist')].agent_name].toolCall,
                        hist'[Len(hist')])
          /\ parallelAgentCards'[hist'[Len(hist')].agent_name].toolCallArgs
               \in FrameArgs(hist'[Len(hist')])]_vars

\* in agent A's window a completed card of tool t1 that holds a snapshot and a
\* delta is followed by a running card of tool t2, opened at a later instant
\* by a delta frame
C10_Witness ==
  \E a, b \in 1..Len(cards) :
    /\ a < b /\ cards[a].loc # 0 /\ cards[b].loc = cards[a].loc
    /\ cards[a].toolName = "t1" /\ cards[b].toolName = "t2"
    /\ cards[a].completed /\ cards[a].content = Snap \o Dlt
    /\ ~cards[b].completed /\ parallelAgentCards["A"].toolCall = b
    /\ cards[b].startTime > cards[a].startTime
    /\ parallelAgentCards["A"].toolCallArgs = Dlt

\* --------------------------------------------------------- analysis events
IdX == Str("x")
IdY == Str("y")
IdDotted == <<"x", ".", "c">>
Analysis(id, c) == [Ev("analysis") EXCEPT !.id = id, !.content = Some(c)]
AnalysisEvents ==
  {Analysis(id, c) : id \in {IdX, IdY, IdDotted}, c \in {FragA, FragB}}

NextAnalysis == \E e \in AnalysisEvents : ReadFrame(e)

SpecAnalysis == InitStreaming /\ [][NextAnalysis]_vars

\* the analysis events dispatched so far that carry a given id
AnalysisWith(id) == {i \in 1..Len(hist) : hist[i].type = "analysis" /\ hist[i].id = id}
RenderedWith(id) == {i \in 1..Len(analysisEls) : analysisEls[i].id = id}

\* ---------------------------------------------------------------- C11
\* C11: for every id that occurred in an analysis event there is exactly one
\* rendered element with that id, and it carries the content of the first
\* event with that id, however the ids were interleaved.
C11_OneElementPerAnalysisId ==
  \A id \in {IdX, IdY, IdDotted} :
    IF AnalysisWith(id) = {} THEN RenderedWith(id) = {}
    ELSE /\ Cardinality(RenderedWith(id)) = 1
         /\ \A i \in RenderedWith(id) :
              analysisEls[i].content =
                hist[CHOOSE k \in AnalysisWith(id) : \A m \in AnalysisWith(id) : k <= m].content

\* ------------------------------------------------------- parallel sessions
MergeDone == Ev("merge.done")
GroupEvents ==
  {GroupStart(<<"A">>), GroupStart(<<"A", "B", "C">>),
   Reasoning("A", FragA), Reasoning("", FragB),
   Excel("A", FragA, FALSE), MergeDone}

NextGroups ==
  \/ \E e \in GroupEvents : ReadFrame(e)
  \/ Tick(ShortNow)

SpecGroups == InitStreaming /\ [][NextGroups]_vars

\* the step dispatched parallel_group.start with a non-empty task list
GroupStartFrame ==
  /\ DispatchedOne
  /\ hist'[Len(hist')].type = "parallel_group.start"
  /\ Len(hist'[Len(hist')].tasks) > 0

\* after the step a new session is active whose windows are the last
\* Len(tasks) windows created, one per task, waiting and empty
SessionOpenedFor(tasks) ==
  /\ isParallelMode'
  /\ currentParallelContainer' = Len(containers) + 1
  /\ Len(containers') = Len(containers) + 1
  /\ containers'[Len(containers')].attached
  /\ Len(windows') = Len(windows) + Len(tasks)
  /\ \A i \in 1..Len(tasks) :
       /\ windows'[Len(windows) + i].agentName = tasks[i]
       /\ windows'[Len(windows) + i].status = "waiting"
       /\ windows'[Len(windows) + i].container = currentParallelContainer'
       /\ \A c \in 1..Len(cards') : cards'[c].loc # Len(windows) + i
  /\ DOMAIN parallelWindows' = {tasks[i] : i \in 1..Len(tasks)}
  /\ \A a \in DOMAIN parallelWindows' :
       /\ parallelWindows'[a] \in (Len(windows) + 1)..Len(windows')
       /\ windows'[parallelWindows'[a]].agentName = a
  /\ containers'[Len(containers')].grid
       = (IF Len(tasks) <= 2 THEN "grid-2" ELSE "grid-4")
  /\ containers'[Len(containers')].hasNav = (Len(tasks) > 2)

\* ---------------------------------------------------------------- C12
\* C12: the step that handles parallel_group.start with a non-empty task
\* list leaves a parallel session active with exactly one window per task,
\* each waiting and holding no card; the grid is the 2-column layout for at
\* most 2 tasks and the 4-column layout otherwise, and the tab strip exists
\* exactly when there are more than 2 tasks.
C12_GroupStartOpensSession ==
  [][GroupStartFrame => SessionOpenedFor(hist'[Len(hist')].tasks)]_vars

\* a group of three tasks has replaced a group of one task whose agent had a
\* card: two wrappers, four windows, the newer with a tab strip
C12_Witness ==
  /\ hist # <<>> /\ hist[Len(hist)] = GroupStart(<<"A", "B", "C">>)
  /\ Len(containers) = 2 /\ Len(windows) = 4
  /\ ~containers[1].attached /\ ~containers[1].hasNav /\ containers[2].hasNav
  /\ \E c \in 1..Len(cards) : cards[c].loc = 1

\* ------------------------------------------------------ send affordance
\* the step leaves the streaming flow (streamChatResponse and sendMessage end)
ExitsFlow == pc # "idle" /\ pc' = "idle"
EntersFlow == pc = "idle" /\ pc' # "idle"

\* ---------------------------------------------------------------- C13
\* C13: every step that leaves the streaming flow (end of stream, handled
\* cancellation, transport failure, with or without an error event before)
\* finds the button in stop mode and restores it: isStreaming becomes false
\* and stop mode is left; the affordance changes in no step other than the
\* entry into and the exit from the flow (so it is restored once per flow),
\* and it is never in stop mode while no flow is running.
C13_SendAffordanceRestoredOnce ==
  [][/\ ExitsFlow => (isStreaming /\ stopMode /\ ~isStreaming' /\ ~stopMode')
     /\ (isStreaming' # isStreaming \/ stopMode' # stopMode) => (ExitsFlow \/ EntersFlow)
     /\ pc' = "idle" => (~isStreaming' /\ ~stopMode')]_vars

\* two flows have ended, one by a cancellation and one by a failure, after
\* events were dispatched: the button is idle
C13_Witness ==
  /\ pc = "idle" /\ sessions = 2 /\ ~isStreaming /\ ~stopMode
  /\ \E i \in 1..Len(messages) : messages[i].role = "system"
  /\ \E i \in 1..Len(messages) : messages[i].role = "assistant"
  /\ nEvents > 0

\* ---------------------------------------------------------------- C14
\* C14: a request is issued only by a step that starts on an idle page (no
\* stream in progress, no abort handle held), one request per step; a click
\* on the button while a stream is in progress issues no request and only
\* aborts the current one; and while a stream is in progress the abort handle
\* held is the one of the latest request, so no earlier request is still
\* being served.
C14_OneStreamSession ==
  [][/\ sessions' # sessions =>
          /\ ~isStreaming /\ pc = "idle" /\ currentAbortController = 0
          /\ sessions' = sessions + 1
          /\ isStreaming' /\ currentAbortController' = sessions'
     /\ (isStreaming /\ toasts' = Append(toasts, "toast_execution_stopped")) =>
          /\ sessions' = sessions /\ pc' = pc
          /\ aborted' /\ isStreaming'
     /\ isStreaming' => currentAbortController' = sessions']_vars

\* the second stream is being cancelled by a click while it is read
C14_Witness ==
  /\ sessions = 2 /\ aborted /\ pc = "read" /\ isStreaming
  /\ currentAbortController = 2
  /\ toasts # <<>> /\ toasts[Len(toasts)] = "toast_execution_stopped"

\* ---------------------------------------------------------------- C15
\* C15: when a stream dispatches its first event, every card that existed
\* before (every card created by an earlier stream, however that stream
\* ended) is completed.
C15_NoCardDanglesAcrossSessions ==
  [][(hist = <<>> /\ hist' # <<>>) =>
       \A c \in 1..Len(cards) : cards'[c].completed]_vars

\* no card and no buffer is tracked for any agent
NothingInherited(agentCards) ==
  \A a \in DOMAIN agentCards : agentCards[a] = EmptyAgentCards

\* the step dispatched a fragment for an agent right after the group started
FirstFragmentOfGroup ==
  /\ DispatchedOne /\ Len(hist') >= 2
  /\ hist'[Len(hist') - 1].type = "parallel_group.start"
  /\ Len(hist'[Len(hist') - 1].tasks) > 0
  /\ IsFragment(hist'[Len(hist')])
  /\ ShouldRouteToParallel(St, hist'[Len(hist')])

\* ---------------------------------------------------------------- C16
\* C16: when parallel_group.start with a non-empty task list is handled while
\* a parallel session is active, every card of the prior session's windows is
\* completed after the step and no per-agent card or buffer is carried over;
\* and the first fragment dispatched for an agent of a group creates a new
\* card in that agent's window whose content is that fragment alone.
C16_GroupReplacementInheritsNothing ==
  [][/\ (GroupStartFrame /\ isParallelMode) =>
          /\ \A c \in 1..Len(cards) : cards[c].loc # 0 => cards'[c].completed
          /\ NothingInherited(parallelAgentCards')
     /\ FirstFragmentOfGroup =>
          /\ touched' = Len(cards) + 1 /\ Len(cards') = Len(cards) + 1
          /\ cards'[touched'].loc = parallelWindows[hist'[Len(hist')].agent_name]
          /\ cards'[touched'].content = hist'[Len(hist')].content[1]]_vars

\* ---------------------------------------------------------------- C17
\* C17: a step in which the request fails without a cancellation (the error
\* body of a non-2xx response has been read, or fetch / read rejects) appends
\* exactly one message to the chat, of role assistant, stops the total timer
\* of the stream, and leaves the page ready for a new message: no stream in
\* progress, button idle, no abort handle held.
C17_TransportFailureSurfaces ==
  [][(TransportFails \/ ErrBodyDone) =>
       /\ Len(messages') = Len(messages) + 1
       /\ SubSeq(messages', 1, Len(messages)) = messages
       /\ messages'[Len(messages')].role = "assistant"
       /\ totalTimeTimer' = 0 /\ totalTimeTimer \notin intervals'
       /\ totalTimeStartTime' = Absent
       /\ pc' = "idle" /\ ~isStreaming' /\ ~stopMode' /\ ~aborted'
       /\ currentAbortController' = 0]_vars

\* after a failed exchange (one assistant message, no cancellation) a second
\* message was sent and its response is being read
C17_Witness ==
  /\ sessions = 2 /\ pc = "read"
  /\ Len(SelectSeq(messages, IsAssistant)) = 1
  /\ SelectSeq(messages, IsSystem) = <<>>
  /\ messages[Len(messages)].role = "user"
  /\ toasts = <<"toast_send_failed">>

\* ------------------------------------------------------- parse failures
BadLine == <<P1, P2, Bad, NL>>

\* the chunk delivered in this step completes a data line that is no JSON
\* (the line may have begun in earlier chunks)
BadLineCompleted ==
  /\ pc = "read" /\ pos' > pos
  /\ buffer \o SubSeq(stream, pos + 1, pos') = BadLine

\* ---------------------------------------------------------------- C18
\* C18: a step that completes a data line whose payload fails JSON parsing
\* changes nothing of the page (no card, buffer, parallel state, message or
\* notification; nothing is dispatched), keeps the stream being read with an
\* empty line buffer; and after every step the events dispatched are still
\* the payloads of the complete lines delivered, in order, so the frames
\* after the unparseable one are dispatched.
C18_ParseFailureSkipped ==
  [][/\ BadLineCompleted =>
          (St' = St /\ buffer' = <<>> /\ pc' = "read" /\ ~aborted')
     /\ hist' = PayloadsOf(SubSeq(stream, 1, pos'), <<>>)]_vars

\* a frame that follows an unparseable line has been dispatched
C18_Witness ==
  /\ Delivered = Frame(E1) \o BadLine \o Frame(E2)
  /\ hist = <<E1, E2>> /\ pc = "read"
  /\ Len(cards) = 1 /\ cards[1].content = FragA \o FragB

\* ------------------------------------------------------------ done events
DoneTerminateFinal ==
  [Ev("done") EXCEPT !.terminate_card = TRUE, !.final_output = Some(Str("ans"))]
DoneEvents ==
  {Reasoning("", FragA), ToolLog("", FragA),
   GroupStart(<<"A">>), Reasoning("A", FragA),
   DoneTerminate, DoneTerminateFinal, DoneFinal(Str("ans")), DoneBare}

NextDone ==
  \/ \E e \in DoneEvents : ReadFrame(e)
  \/ FireTimeout
  \/ Tick(ShortNow)

SpecDone == InitStreaming /\ [][NextDone]_vars

\* the step dispatched a done event
DoneFrame == DispatchedOne /\ hist'[Len(hist')].type = "done"

\* the step appended no bubble, left the total timer as it was (running, if
\* it was running) and the stream being read
StreamGoesOn ==
  /\ messages' = messages
  /\ totalTimeTimer' = totalTimeTimer
  /\ totalTimeTimer \in intervals => totalTimeTimer' \in intervals'
  /\ totalTimeStartTime' = totalTimeStartTime
  /\ pc' = "read"

\* ---------------------------------------------------------------- C19
\* C19: a done event is handled as exactly one of three cases, in this
\* order.  With terminate_card, whether or not final_output is present: every
\* open card in the document is completed, no bubble is appended, the total
\* timer keeps running and the stream goes on.  Otherwise with final_output:
\* the final-answer bubble is appended and the total timer stopped.  With
\* neither: the last active card is completed, the pointer cleared, and the
\* stream goes on.
C19_DoneCasesInPriorityOrder ==
  [][/\ (DoneFrame /\ hist'[Len(hist')].terminate_card) =>
          /\ \A c \in 1..Len(cards) : CardAttached(St, c) => cards'[c].completed
          /\ Len(cards') = Len(cards)
          /\ StreamGoesOn
     /\ (DoneFrame /\ ~hist'[Len(hist')].terminate_card
                   /\ Truthy(hist'[Len(hist')].final_output)) =>
          /\ messages' = Append(messages,
               [role |-> "final", content |-> hist'[Len(hist')].final_output[1]])
          /\ totalTimeTimer' = 0
     /\ (DoneFrame /\ ~hist'[Len(hist')].terminate_card
                   /\ ~Truthy(hist'[Len(hist')].final_output)) =>
          /\ lastActiveCard # NoCard => cards'[lastActiveCard].completed
          /\ lastActiveCard' = NoCard
          /\ StreamGoesOn]_vars

\* the step dispatched merge.done
MergeDoneFrame == DispatchedOne /\ hist'[Len(hist')].type = "merge.done"

\* card c sits in a window of the session that is active
InActiveSession(c) ==
  /\ cards[c].loc # 0
  /\ isParallelMode
  /\ windows[cards[c].loc].container = currentParallelContainer

\* the step dispatched a fragment while no session was active
FragmentOutsideSession ==
  /\ DispatchedOne /\ ~isParallelMode
  /\ IsFragment(hist'[Len(hist')])

\* ---------------------------------------------------------------- C20
\* C20: after merge.done no parallel session is active (no window is
\* registered, no per-agent card or buffer is tracked, no container is
\* current), every card in a window of the session that was active is
\* completed, and a fragment dispatched while no session is active, with or
\* without agent_name, is rendered in the main stream and opens no session.
C20_MergeDoneTearsDownSession ==
  [][/\ MergeDoneFrame =>
          /\ ~isParallelMode'
          /\ parallelWindows' = <<>> /\ parallelAgentCards' = <<>>
          /\ currentParallelContainer' = 0
          /\ \A c \in 1..Len(cards) : InActiveSession(c) => cards'[c].completed
     /\ FragmentOutsideSession =>
          /\ ~isParallelMode' /\ parallelAgentCards' = parallelAgentCards
          /\ touched' # NoCard => cards'[touched'].loc = 0]_vars

\* --------------------------------------------------- task life-cycle events
MergeStart == Ev("merge.start")
TaskEvents ==
  {GroupStart(<<"A", "B">>),
   Reasoning("A", FragA), Reasoning("B", FragB), Excel("A", FragA, FALSE),
   TaskEv("parallel_task.start", "A"), TaskEv("parallel_task.done", "A"),
   TaskEv("parallel_task.error", "B"), MergeStart}

NextTasks ==
  \/ \E e \in TaskEvents : ReadFrame(e)
  \/ Tick(ShortNow)

SpecTasks == InitStreaming /\ [][NextTasks]_vars

\* the step dispatched parallel_task.done for an agent
TaskDoneFrame ==
  /\ DispatchedOne
  /\ hist'[Len(hist')].type = "parallel_task.done"
  /\ hist'[Len(hist')].agent_name # ""

\* the cards tracked for agent a
TrackedFor(a) ==
  IF a \in DOMAIN parallelAgentCards
  THEN {parallelAgentCards[a].reasoning, parallelAgentCards[a].toolCall,
        parallelAgentCards[a].output, parallelAgentCards[a].excelTask} \ {NoCard}
  ELSE {}

\* the window registered for agent a, as a set
WindowOf(a) ==
  IF a \in DOMAIN parallelWindows THEN {parallelWindows[a]} ELSE {}

\* ---------------------------------------------------------------- C21
\* C21: after parallel_task.done for agent X the window of X has status
\* completed and every card tracked for X (reasoning, tool call, output and
\* excel task) is completed with its expanded flag as before; every other
\* window and every other card is unchanged.
C21_TaskDoneCompletesAgent ==
  [][TaskDoneFrame =>
       /\ \A w \in WindowOf(hist'[Len(hist')].agent_name) :
             windows'[w].status = "completed"
       /\ \A c \in TrackedFor(hist'[Len(hist')].agent_name) :
             cards'[c].completed /\ cards'[c].expanded = cards[c].expanded
       /\ \A w \in (1..Len(windows)) \ WindowOf(hist'[Len(hist')].agent_name) :
             windows'[w] = windows[w]
       /\ \A c \in (1..Len(cards)) \ TrackedFor(hist'[Len(hist')].agent_name) :
             cards'[c] = cards[c]]_vars

\* ------------------------------------------------ unrecognised event types
RecognisedTypes ==
  {"parallel_group.start", "parallel_task.start", "parallel_task.done",
   "parallel_task.error", "parallel_group.done", "merge.start", "merge.done",
   "analysis", "reasoning", "tool_call", "tool_output", "tool_log", "delta",
   "run_item", "excel_agent_event", "done", "error"}

Heartbeat == Ev("heartbeat")
UnknownEvents ==
  {Heartbeat, TaskEv("heartbeat", "A"), Ev(""),
   Reasoning("", FragA), ToolLog("", FragA),
   GroupStart(<<"A">>), Reasoning("A", FragA)}

NextUnknown ==
  \/ \E e \in UnknownEvents : ReadFrame(e)
  \/ FireTimeout
  \/ Tick(ShortNow)

SpecUnknown == InitStreaming /\ [][NextUnknown]_vars

\* the program's variables, without the record of what was dispatched
ProgramState(s) == [s EXCEPT !.hist = <<>>, !.nEvents = 0, !.touched = NoCard]

\* the step dispatched an event whose type is not recognised
UnknownFrame ==
  DispatchedOne /\ hist'[Len(hist')].type \notin RecognisedTypes

\* ---------------------------------------------------------------- C22
\* C22: dispatching an event whose type is not a recognised variant throws
\* nothing and changes no program variable (card pointers, buffers, cards,
\* parallel session, timers, messages, notifications); the stream is still
\* being read afterwards.
C22_UnknownTypeIgnored ==
  [][UnknownFrame =>
       /\ ProgramState(St') = ProgramState(St)
       /\ touched' = NoCard
       /\ pc' = "read" /\ ~aborted' /\ buffer' = <<>>]_vars

\* a fragment, two unrecognised events while its card is open, and then a
\* fragment that is appended to the same card as usual
C22_Witness ==
  /\ Len(hist) = 4
  /\ hist[1] = Reasoning("", FragA) /\ hist[2] = Heartbeat
  /\ hist[3] = Ev("") /\ hist[4] = Reasoning("", FragA)
  /\ Len(cards) = 1 /\ cards[1].content = FragA \o FragA
  /\ ~cards[1].completed /\ lastActiveCard = 1

\* ------------------------------------------------------ rendering failures
Poison == Str("!")
Num == Str("1")
WithMode(e, mode) == [e EXCEPT !.mode = mode]
RenderEvents ==
  {Delta("", FragA), Delta("", Poison),
   ToolCall("", Some("t1"), Absent, Some(Num)),
   ToolCall("", Some("t1"), Absent, Some(FragA)),
   WithMode(ToolCall("", Some("t1"), Absent, Some(Poison)), "code"),
   WithMode(ToolCall("", Some("t1"), Absent, Some(Poison)), "markdown"),
   GroupStart(<<"A">>), Delta("A", Poison)}

NextRender ==
  \/ \E e \in RenderEvents : ReadFrame(e)
  \/ Tick(ShortNow)

SpecRender == InitStreaming /\ [][NextRender]_vars

\* rendering buf under the content type fails
RenderFails(buf, type) ==
  CASE type = "json" -> ~JsonParses(buf) \/ MarkedThrows(JsonStringify(buf))
    [] type \in {"code", "markdown"} -> MarkedThrows(buf)
    [] OTHER -> FALSE

\* the card body shows buf: rendered, or escaped raw as the fallback when
\* rendering it fails
BodyShows(card, buf, type) ==
  IF RenderFails(buf, type) THEN card.content = buf /\ card.fallback
  ELSE /\ card.content = (IF type = "json" THEN JsonStringify(buf) ELSE buf)
       /\ ~card.fallback

\* the step dispatched a delta fragment handled in normal mode
DeltaNormalFrame ==
  /\ DispatchedOne
  /\ hist'[Len(hist')].type = "delta" /\ IsFragment(hist'[Len(hist')])
  /\ ~ShouldRouteToParallel(St, hist'[Len(hist')])
\* ... handled for an agent's window
DeltaParallelFrame ==
  /\ DispatchedOne
  /\ hist'[Len(hist')].type = "delta" /\ IsFragment(hist'[Len(hist')])
  /\ ShouldRouteToParallel(St, hist'[Len(hist')])
\* the step dispatched tool-call arguments handled in normal mode
ToolCallNormalFrame ==
  /\ DispatchedOne
  /\ hist'[Len(hist')].type = "tool_call" /\ ~hist'[Len(hist')].done
  /\ Truthy(hist'[Len(hist')].arguments) \/ Truthy(hist'[Len(hist')].arguments_delta)
  /\ ~ShouldRouteToParallel(St, hist'[Len(hist')])

\* ---------------------------------------------------------------- C23
\* C23: after an event that renders a buffer into a card (delta as markdown,
\* tool-call arguments under the event's mode), the card body shows the
\* buffer: rendered, or the escaped raw buffer as fallback when the renderer
\* throws or json does not parse; the handler's state updates took place (the
\* card is tracked, the body is that of the updated buffer) and the stream is
\* still being read.
C23_RenderFailureAbsorbed ==
  [][/\ DeltaNormalFrame =>
          /\ currentOutputCard' # NoCard
          /\ BodyShows(cards'[currentOutputCard'], outputContent', "markdown")
          /\ pc' = "read" /\ ~aborted'
     /\ DeltaParallelFrame =>
          /\ hist'[Len(hist')].agent_name \in DOMAIN parallelAgentCards'
          /\ parallelAgentCards'[hist'[Len(hist')].agent_name].output # NoCard
          /\ BodyShows(
               cards'[parallelAgentCards'[hist'[Len(hist')].agent_name].output],
               parallelAgentCards'[hist'[Len(hist')].agent_name].outputContent,
               "markdown")
          /\ pc' = "read" /\ ~aborted'
     /\ ToolCallNormalFrame =>
          /\ currentToolCallCard' # NoCard
          /\ BodyShows(cards'[currentToolCallCard'], toolCallArgs',
                       ModeOr(hist'[Len(hist')], "json"))
          /\ pc' = "read" /\ ~aborted']_vars

\* ------------------------------------------------- normal-mode card tracking
NormalEvents ==
  {Reasoning("", FragA), ReasoningDone(""),
   ToolCall("", Some("t1"), Absent, Some(FragA)),
   ToolOutput("", FragA), ToolLog("", FragA),
   Delta("", FragA), RunItem("", "reasoning_item")}

NextNormal ==
  \/ \E e \in NormalEvents : ReadFrame(e)
  \/ FireTimeout
  \/ Tick(ShortNow)

SpecNormal == InitStreaming /\ [][NextNormal]_vars

StreamedTitles == {"Reasoning", "Tool use", "Tool output", "Analysis", "Excel Agent"}

\* the streamed cards of the main stream that are running
RunningStreamed ==
  {c \in 1..Len(cards) :
     cards[c].loc = 0 /\ cards[c].title \in StreamedTitles /\ ~cards[c].completed}

\* the most recently created card of a non-empty set of cards
Newest(cs) == CHOOSE c \in cs : \A d \in cs : d <= c

\* ---------------------------------------------------------------- C24
\* C24: in normal mode, between dispatches and timer callbacks, lastActiveCard
\* is null or refers to a running card, and when some streamed card of the
\* main stream is running lastActiveCard refers to the newest of them.
C24_LastActiveTracksNewestRunning ==
  ~isParallelMode =>
    /\ lastActiveCard # NoCard => ~cards[lastActiveCard].completed
    /\ RunningStreamed # {} => lastActiveCard = Newest(RunningStreamed)

\* ---------------------------------------------------- deferred completions
DeferredEvents ==
  {ToolOutput("", FragA), ToolOutput("", FragB), Reasoning("", FragA),
   ReasoningDone("")}

NextDeferred ==
  \/ \E e \in DeferredEvents : ReadFrame(e)
  \/ FireTimeout
  \/ Tick(LongNow)

SpecDeferred == InitStreaming /\ [][NextDeferred]_vars

\* the step ran the callback of the i-th pending timeout
Fired(i) ==
  /\ i \in 1..Len(timeouts) /\ TimeoutDue(i)
  /\ nEvents' = nEvents /\ now' = now
  /\ Len(timeouts') = Len(timeouts) - 1
  /\ timeouts' = RemoveAt(timeouts, i)

\* the main-stream tool_output cards whose own delay ends when the i-th
\* pending timeout is due: the cards that scheduled it
Owners(i) ==
  {c \in 1..Len(cards) :
     /\ cards[c].title = "Tool output" /\ cards[c].loc = 0
     /\ cards[c].startTime + ToolOutputDelayMs = timeouts[i].due}

\* ---------------------------------------------------------------- C25
\* C25: when the completion scheduled by a normal-mode tool_output fires, it
\* completes no card other than the one that scheduled it (in particular no
\* tool_output card created later, whose own delay has not elapsed), and it
\* leaves lastActiveCard alone while that refers to another, running card.
C25_DeferredCompletionOwnCardOnly ==
  [][\A i \in 1..Len(timeouts) :
       (Fired(i) /\ timeouts[i].kind = "toolOutputNormal") =>
         /\ \A c \in (1..Len(cards)) \ Owners(i) :
              ~cards[c].completed => ~cards'[c].completed
         /\ (lastActiveCard # NoCard /\ lastActiveCard \notin Owners(i)
                /\ ~cards[lastActiveCard].completed) =>
              lastActiveCard' = lastActiveCard]_vars

\* --------------------------------------- deferred completions and restarts
RestartEvents == {ToolOutput("", FragA), Reasoning("", FragA)}

NextRestart ==
  \/ SendMessage
  \/ StopClick
  \/ AbortContinuation
  \/ FetchOk
  \/ \E e \in RestartEvents : ReadFrame(e)
  \/ ReadDone
  \/ FireTimeout
  \/ Tick(LongNow)

SpecRestart == Init /\ [][NextRestart]_vars

\* the cards whose creation scheduled the i-th pending timeout
ScheduledBy(i) ==
  IF timeouts[i].kind = "toolOutputNormal" THEN Owners(i)
  ELSE {timeouts[i].card} \ {NoCard}

\* ---------------------------------------------------------------- C26
\* C26: when the completion scheduled for a tool_output, tool_log or run_item
\* card fires, the card is completed afterwards, whatever happened since it
\* was scheduled (events, a cancellation, a new session); and if the card was
\* completed already, the callback changes nothing of it.
C26_DeferredCompletionAlwaysLands ==
  [][\A i \in 1..Len(timeouts) :
       Fired(i) =>
         \A c \in ScheduledBy(i) :
           /\ cards'[c].completed
           /\ cards[c].completed => cards'[c] = cards[c]]_vars

\* ------------------------------------------------------ workflow-tree nodes
ExcelEvents ==
  {Excel("", FragA, FALSE), ExcelDone(""),
   RunItem("", "reasoning_item"), ToolLog("", FragA), DoneTerminate,
   GroupStart(<<"A">>), Excel("A", FragA, FALSE), ExcelDone("A"),
   RunItem("A", "reasoning_item")}

NextExcel ==
  \/ \E e \in ExcelEvents : ReadFrame(e)
  \/ FireTimeout
  \/ Tick(ShortNow)

SpecExcel == InitStreaming /\ [][NextExcel]_vars

IsExcel(e) == e.type = "excel_agent_event"

\* every excel_agent_event dispatched so far belongs to one task scope: the
\* main stream (no parallel session was ever opened), or agent A (the stream
\* began by opening the session and no excel event lacks the agent name)
MainScopeOnly(h, cs) == cs = <<>>
AgentScopeOnly(h) ==
  /\ h # <<>> /\ h[1].type = "parallel_group.start"
  /\ \A i \in 1..Len(h) : IsExcel(h[i]) => h[i].agent_name = "A"
OneScope(h, cs) == MainScopeOnly(h, cs) \/ AgentScopeOnly(h)

OpenNodes(ns) == {n \in 1..Len(ns) : ns[n] = "open"}

\* the step dispatched the done fragment of an excel task
ExcelDoneFrame ==
  DispatchedOne /\ IsExcel(hist'[Len(hist')]) /\ hist'[Len(hist')].done

\* ---------------------------------------------------------------- C27
\* C27: while all excel tasks of the stream belong to one scope (the main
\* stream, or one agent), at most one workflow-tree node is open, and after
\* the done fragment of a task is processed no node is open, whatever
\* run_item, tool_log or terminate_card done events came in between.
C27_WorkflowNodeClosedOnDone ==
  [][OneScope(hist', containers') =>
       /\ Cardinality(OpenNodes(workflowNodes')) <= 1
       /\ ExcelDoneFrame => OpenNodes(workflowNodes') = {}]_vars

\* ---------------------------------------------------------------- C28
\* C28: when a new stream begins (a message is sent), no parallel session is
\* active, no window is registered, no container is current and no per-agent
\* card or buffer is tracked, however the previous stream ended.
C28_StreamStartsFromResetState ==
  [][EntersFlow =>
       /\ ~isParallelMode'
       /\ parallelWindows' = <<>> /\ currentParallelContainer' = 0
       /\ parallelAgentCards' = <<>>]_vars

\* the step dispatched a run_item event
RunItemFrame == DispatchedOne /\ hist'[Len(hist')].type = "run_item"

\* ---------------------------------------------------------------- C29
\* C29: right after a run_item handled in normal mode, every card created
\* before it in the main stream is completed, every normal-mode card pointer
\* is null and every normal-mode buffer is empty; a run_item routed to a
\* parallel window completes no card of the main stream.
C29_RunItemCleanSlate ==
  [][/\ (RunItemFrame /\ ~ShouldRouteToParallel(St, hist'[Len(hist')])) =>
          /\ \A c \in 1..Len(cards) : cards[c].loc = 0 => cards'[c].completed
          /\ currentReasoningCard' = NoCard /\ currentToolCallCard' = NoCard
          /\ currentToolOutputCard' = NoCard /\ currentOutputCard' = NoCard
          /\ currentExcelTaskCard' = NoCard /\ lastActiveCard' = NoCard
          /\ reasoningContent' = EmptyStr /\ toolCallArgs' = EmptyStr
          /\ toolOutputContent' = EmptyStr /\ outputContent' = EmptyStr
          /\ excelTaskContent' = EmptyStr
     /\ (RunItemFrame /\ ShouldRouteToParallel(St, hist'[Len(hist')])) =>
          \A c \in 1..Len(cards) :
            (cards[c].loc = 0 /\ ~cards[c].completed) => ~cards'[c].completed]_vars

\* the step dispatched merge.start
MergeStartFrame == DispatchedOne /\ hist'[Len(hist')].type = "merge.start"

\* ---------------------------------------------------------------- C30
\* C30: after merge.start every window registered in the active session has
\* status completed, whatever its status was before, every other window is
\* unchanged, and no card is completed or otherwise changed by the step.
C30_MergeStartCompletesWindows ==
  [][MergeStartFrame =>
       /\ \A a \in DOMAIN parallelWindows :
            windows'[parallelWindows[a]].status = "completed"
       /\ \A w \in 1..Len(windows) :
            (\A a \in DOMAIN parallelWindows : parallelWindows[a] # w) =>
              windows'[w] = windows[w]
       /\ parallelWindows' = parallelWindows /\ isParallelMode' = isParallelMode
       /\ cards' = cards]_vars

\* merge.start arrived while A's window was waiting with an open card in it
\* and B's window showed an error: both windows are completed, the card runs
C30_Witness ==
  /\ Len(hist) = 4 /\ hist[4] = MergeStart
  /\ hist[2] = Reasoning("A", FragA)
  /\ hist[3] = TaskEv("parallel_task.error", "B")
  /\ isParallelMode /\ DOMAIN parallelWindows = {"A", "B"}
  /\ \A a \in {"A", "B"} : windows[parallelWindows[a]].status = "completed"
  /\ Len(cards) = 1 /\ ~cards[1].completed
  /\ cards[1].loc = parallelWindows["A"]

\* ------------------------------------------------ excel fragments and clean
CleanEvents ==
  {Excel("", FragA, FALSE), Excel("", FragB, TRUE),
   GroupStart(<<"A">>), Excel("A", FragA, FALSE), Excel("A", FragB, TRUE),
   ToolLog("", FragA), RunItem("", "reasoning_item"), ExcelDone("")}

NextClean ==
  \/ \E e \in CleanEvents : ReadFrame(e)
  \/ FireTimeout
  \/ Tick(ShortNow)

SpecClean == InitStreaming /\ [][NextClean]_vars

\* the step dispatched an excel fragment: done absent, content present
ExcelFragmentFrame ==
  /\ DispatchedOne /\ IsExcel(hist'[Len(hist')])
  /\ ~hist'[Len(hist')].done /\ Truthy(hist'[Len(hist')].content)

\* what card c showed before the step; nothing when the step created it
ShownBefore(c) == IF c <= Len(cards) THEN cards[c].content ELSE EmptyStr

\* the excel card of the scope the event is handled in, after the step
ExcelCardAfter(e) ==
  IF ShouldRouteToParallel(St, e) THEN parallelAgentCards'[e.agent_name].excelTask
  ELSE currentExcelTaskCard'

\* ---------------------------------------------------------------- C31
\* C31: after an excel_agent_event fragment (done absent), in normal and in
\* parallel mode, the excel card of its scope shows the fragment alone when
\* clean is set, and what the card showed before followed by the fragment
\* when clean is not set.
C31_CleanResetsBuffer ==
  [][ExcelFragmentFrame =>
       /\ ExcelCardAfter(hist'[Len(hist')]) # NoCard
       /\ touched' = ExcelCardAfter(hist'[Len(hist')])
       /\ cards'[touched'].content =
            (IF hist'[Len(hist')].clean THEN EmptyStr ELSE ShownBefore(touched'))
              \o hist'[Len(hist')].content[1]]_vars

\* in A's window the excel card held "aa" and a fragment "b" with clean set
\* replaced it; the main-stream card was never opened
C31_Witness ==
  /\ Len(hist) = 4
  /\ hist[2] = Excel("A", FragA, FALSE) /\ hist[3] = Excel("A", FragA, FALSE)
  /\ hist[4] = Excel("A", FragB, TRUE)
  /\ Len(cards) = 1 /\ cards[1].content = FragB /\ cards[1].loc # 0
  /\ parallelAgentCards["A"].excelTaskContent = FragB

\* ---------------------------------------------------------------- C32
SentinelLine == <<P1, P2, Sentinel, NL>>

\* a chunk completes the line "data: [DONE]"
SentinelLineCompleted ==
  /\ pc = "read" /\ pos' > pos
  /\ buffer \o SubSeq(stream, pos + 1, pos') = SentinelLine

\* C32: a step that completes the sentinel line dispatches nothing and
\* changes nothing of the page, and the stream is still being read after it;
\* after every step the events dispatched are the payloads of the complete
\* data lines delivered, so the frames after the sentinel are dispatched;
\* and the read loop is left only by the step on which the transport
\* reports completion, after the whole response was delivered.
C32_SentinelSkippedLoopGoesOn ==
  [][/\ SentinelLineCompleted =>
          (St' = St /\ hist' = hist /\ buffer' = <<>> /\ pc' = "read")
     /\ hist' = PayloadsOf(SubSeq(stream, 1, pos'), <<>>)
     /\ (pc = "read" /\ pc' # "read") => (pos = Len(stream) /\ pos' = pos)]_vars

\* a frame that follows the sentinel line has been dispatched
C32_Witness ==
  /\ stream = Frame(E1) \o SentinelLine \o Frame(E2)
  /\ pos = Len(stream) /\ pc = "read"
  /\ hist = <<E1, E2>>

\* ---------------------------------------------------------------- C33
\* the cards that are children of the main message list
InMainList == {c \in 1..Len(cards) : cards[c].loc = 0}

\* the cards that are children of the content area of window w
InWindow(w) == {c \in 1..Len(cards) : cards[c].loc = w}

\* the containers card c is a child of: the main list (0) or a window
ContainersOf(c) ==
  {w \in 0..Len(windows) : c \in (IF w = 0 THEN InMainList ELSE InWindow(w))}

\* C33: between handlers every card is a child of exactly one container, the
\* main message list or one parallel window created by the page; every card
\* tracked for an agent of a parallel group is in a window and not in the
\* main list; and the card the last content-bearing event was rendered into
\* is outside the main list exactly when that event was routed to a window.
C33_OneContainerPerCard ==
  /\ \A c \in 1..Len(cards) : Cardinality(ContainersOf(c)) = 1
  /\ \A a \in DOMAIN parallelAgentCards :
       \A c \in TrackedFor(a) : c \notin InMainList
  /\ (hist # <<>> /\ ContentBearing(hist[Len(hist)]) /\ touched # NoCard) =>
       (touched \in InMainList <=> ~ShouldRouteToParallel(St, hist[Len(hist)]))

\* one card in the main list and one card moved into the window of agent A
C33_Witness ==
  /\ Len(cards) = 2 /\ Len(hist) = 3
  /\ "A" \in DOMAIN parallelWindows
  /\ ContainersOf(1) = {0}
  /\ ContainersOf(2) = {parallelWindows["A"]}
  /\ touched = 2 /\ hist[3].agent_name = "A"

\* ---------------------------------------------------------------- C34
\* C34: in normal mode, between dispatches and timer callbacks, at most one
\* streamed card of the main stream (reasoning, tool_call, tool_output,
\* output, excel_task) is running.
C34_AtMostOneRunningStreamed ==
  ~isParallelMode => Cardinality(RunningStreamed) <= 1

\* ---------------------------------------------------------------- C35
\* the step dispatched a non-done reasoning, tool_call, delta or
\* excel_agent_event frame that was rendered into a card
StreamedFragmentRendered ==
  /\ DispatchedOne
  /\ hist'[Len(hist')].type \in {"reasoning", "tool_call", "delta", "excel_agent_event"}
  /\ ~hist'[Len(hist')].done
  /\ touched' # NoCard

\* C35: the card a reasoning, tool_call, delta or excel_agent_event fragment
\* is rendered into is running after the handler, and it was not a completed
\* card before the handler.
C35_NoRenderIntoCompletedCard ==
  [][StreamedFragmentRendered =>
       /\ ~cards'[touched'].completed
       /\ touched' <= Len(cards) => ~cards[touched'].completed]_vars

\* ---------------------------------------------------------------- C36
\* C36: while no streamChatResponse call is in progress no interval of the
\* total timer is live, and at no time is more than one of them live.
C36_TotalTimerOnlyWhileStreaming ==
  /\ pc = "idle" => intervals = {}
  /\ Cardinality(intervals) <= 1

\* ---------------------------------------------------------------- C37
\* tool_call frames with and without a tool_name, in both modes
ToolNameEvents ==
  {GroupStart(<<"A">>)}
    \cup {ToolCall(ag, name, Absent, Some(Dlt)) :
            ag \in {"", "A"}, name \in {Absent, Some("t1")}}

NextToolName ==
  \/ \E e \in ToolNameEvents : ReadFrame(e)
  \/ Tick(ShortNow)

SpecToolName == InitStreaming /\ [][NextToolName]_vars

\* the tool-call card frame e would be rendered into, before the handler
OpenToolCallCard(e) ==
  IF ShouldRouteToParallel(St, e)
  THEN IF e.agent_name \in DOMAIN parallelAgentCards
       THEN parallelAgentCards[e.agent_name].toolCall ELSE NoCard
  ELSE currentToolCallCard

\* frame e names the tool card c was created for, or neither carries a name
SameInvocation(c, e) ==
  IF Has(e.tool_name) THEN cards[c].toolName = e.tool_name[1]
  ELSE cards[c].toolName = DatasetString(Absent)

\* the step dispatched a non-done tool_call frame while the tool-call card
\* of the same invocation was open and running
SameInvocationFrame ==
  /\ DispatchedOne
  /\ hist'[Len(hist')].type = "tool_call" /\ ~hist'[Len(hist')].done
  /\ OpenToolCallCard(hist'[Len(hist')]) # NoCard
  /\ ~cards[OpenToolCallCard(hist'[Len(hist')])].completed
  /\ SameInvocation(OpenToolCallCard(hist'[Len(hist')]), hist'[Len(hist')])

\* C37: a non-done tool_call frame for the invocation whose card is open
\* (same tool_name, or no tool_name on either frame) creates no card, does
\* not complete the open card and is rendered into it.
C37_SameInvocationOneCard ==
  [][SameInvocationFrame =>
       /\ Len(cards') = Len(cards)
       /\ ~cards'[OpenToolCallCard(hist'[Len(hist')])].completed
       /\ touched' = OpenToolCallCard(hist'[Len(hist')])]_vars

\* ---------------------------------------------------------------- C38
\* every content-bearing event type, with and without an agent of the group
ModeEvents ==
  {GroupStart(<<"A">>)}
    \cup UNION {{Reasoning(ag, FragA), Delta(ag, FragA),
                ToolCall(ag, Some("t1"), Absent, Some(Dlt)),
                ToolOutput(ag, FragA), ToolLog(ag, FragA),
                RunItem(ag, "reasoning_item"), Excel(ag, FragA, FALSE)} :
               ag \in {"", "A"}}

NextModes ==
  \/ \E e \in ModeEvents : ReadFrame(e)
  \/ FireTimeout
  \/ Tick(ShortNow)

SpecModes == InitStreaming /\ [][NextModes]_vars

\* lastActiveCard, the typed current-card pointers and the normal-mode buffers
NormalTracking(s) ==
  <<s.lastActiveCard, s.currentReasoningCard, s.currentToolCallCard,
    s.currentToolOutputCard, s.currentOutputCard, s.currentExcelTaskCard,
    s.reasoningContent, s.toolCallArgs, s.toolOutputContent, s.outputContent,
    s.excelTaskContent>>

\* the step dispatched a content-bearing event, routed to a window
RoutedFrame ==
  /\ DispatchedOne /\ ContentBearing(hist'[Len(hist')])
  /\ ShouldRouteToParallel(St, hist'[Len(hist')])

\* the step dispatched a content-bearing event, handled in normal mode
UnroutedFrame ==
  /\ DispatchedOne /\ ContentBearing(hist'[Len(hist')])
  /\ ~ShouldRouteToParallel(St, hist'[Len(hist')])

\* C38: a content-bearing event routed to a parallel window leaves
\* lastActiveCard, the typed current-card pointers and the normal-mode
\* buffers unchanged, and touches a card in a window; a content-bearing
\* event handled in normal mode leaves the per-agent card tracking and
\* buffers unchanged and touches a card of the main list.
C38_ModesDoNotInterfere ==
  [][/\ RoutedFrame =>
          (NormalTracking(St') = NormalTracking(St) /\ cards'[touched'].loc # 0)
     /\ UnroutedFrame =>
          (parallelAgentCards' = parallelAgentCards /\ cards'[touched'].loc = 0)]_vars

\* normal-mode cards are open, an event went to the window of agent A and
\* then an event was handled in normal mode while A tracks a card
C38_Witness ==
  /\ Len(hist) = 4
  /\ hist[1] = Reasoning("", FragA) /\ hist[2] = GroupStart(<<"A">>)
  /\ hist[3] = Reasoning("A", FragA) /\ hist[4] = Delta("", FragA)
  /\ parallelAgentCards["A"].reasoning # NoCard
  /\ currentOutputCard # NoCard

\* ---------------------------------------------------------------- C39
\* C39: between steps the abort handle is set exactly while a
\* streamChatResponse call is in progress (from its start to its exit,
\* a pending cancellation included), and whenever none is in progress a call
\* of stopAgent changes nothing: no card, no message, no toast, no timer.
C39_AbortHandleExactlyInFlight ==
  /\ (currentAbortController # 0) <=> (pc # "idle")
  /\ pc = "idle" => StopAgent(St) = St

\* the page is idle after a stream that left a running card and the total
\* timer behind: stopAgent would have something to complete and to clear
C39_Witness ==
  /\ pc = "idle" /\ sessions >= 1 /\ currentAbortController = 0
  /\ lastActiveCard # NoCard /\ ~cards[lastActiveCard].completed
  /\ totalTimeTimer \in intervals
  /\ StopAgent(St) = St

====
